---- MODULE Spec2Model ----
(***************************************************************************)
(* PrivateScore: commitment-and-proof protocol of the browser client.      *)
(*                                                                         *)
(*  - frontend/lib/zkProof.ts   commitment scheme and proof generators     *)
(*  - lib/creditScore           score engine                               *)
(*  - hooks/usePrivateScore     commitment lifecycle (nonce, persistence)  *)
(*  - app/borrow/page           Borrow page proof step                     *)
(*                                                                         *)
(* Strings that the code inspects character by character (hex salts and    *)
(* hashes) are sequences of one-character strings; bytes are 0..255.       *)
(* Real salts are 32 random bytes and real digests 32 bytes; the model     *)
(* uses one-byte salts and a collision-free digest.                        *)
(***************************************************************************)
EXTENDS Integers, Sequences, FiniteSets, TLC

VARIABLES
    req,      \* the call under evaluation (pure-function specifications)
    res,      \* its outcome, or Pending
    store,    \* localStorage: wallet address -> JSON text of a record, or NullObject
    state,    \* usePrivateScore state: creditScore, commitment, isLoading, error
    pending,  \* generateZKProof calls awaiting the prover, with what they captured
    proofs,   \* proofs handed back to callers, oldest first
    borrow,   \* Borrow page state: zkProof, isGeneratingProof, error, currentStep
    n0        \* nonce of the active record when it became the active record

vars == <<req, res, store, state, pending, proofs, borrow, n0>>

Null == "null"

\* null where an object is expected
NullObject == [kind |-> "null"]
Pending == [kind |-> "pending"]

\* A call either returns a value or throws an Error with a message.
Return(v) == [kind |-> "return", value |-> v]

Throw(m) == [kind |-> "throw", msg |-> m]

(***************************************************************************)
(* @noble/hashes utils and number formatting                               *)
(***************************************************************************)
HexChars == <<"0", "1", "2", "3", "4", "5", "6", "7", "8", "9", "a", "b", "c", "d", "e", "f">>

\* Value of one hex digit, upper or lower case; -1 for any other character.
HexVal(c) ==
    CASE c = "0" -> 0 [] c = "1" -> 1 [] c = "2" -> 2 [] c = "3" -> 3
      [] c = "4" -> 4 [] c = "5" -> 5 [] c = "6" -> 6 [] c = "7" -> 7
      [] c = "8" -> 8 [] c = "9" -> 9
      [] c \in {"a", "A"} -> 10 [] c \in {"b", "B"} -> 11
      [] c \in {"c", "C"} -> 12 [] c \in {"d", "D"} -> 13
      [] c \in {"e", "E"} -> 14 [] c \in {"f", "F"} -> 15
      [] OTHER -> -1

\* hexToBytes throws on an odd length and on a non-hex character.
hexToBytesThrows(hex) ==
    \/ Len(hex) % 2 # 0
    \/ \E i \in 1..Len(hex) : HexVal(hex[i]) < 0

hexToBytes(hex) ==
    [i \in 1..(Len(hex) \div 2) |-> 16 * HexVal(hex[2 * i - 1]) + HexVal(hex[2 * i])]

\* bytesToHex writes two lower-case digits per byte.
bytesToHex(bytes) ==
    [i \in 1..(2 * Len(bytes)) |->
        IF i % 2 = 1 THEN HexChars[(bytes[(i + 1) \div 2] \div 16) + 1]
                     ELSE HexChars[(bytes[i \div 2] % 16) + 1]]

\* Mutant: only the low byte of the value is written.
setUint32LowByteOnly(v) == <<0, 0, 0, v % 256>>

\* DataView.setUint32(0, v, false): v modulo 2^32 as four big-endian bytes.
\* Every value written is a non-negative integer below 2^31, its own residue.
setUint32(v) ==
    <<(v \div 16777216) % 256, (v \div 65536) % 256, (v \div 256) % 256, v % 256>>

\* The digest, collision-free: the message behind its length.
sha256(msg) == <<Len(msg)>> \o msg

DecDigits == <<"0", "1", "2", "3", "4", "5", "6", "7", "8", "9">>

RECURSIVE natToString(_)
natToString(n) ==
    IF n < 10 THEN DecDigits[n + 1]
    ELSE natToString(n \div 10) \o DecDigits[(n % 10) + 1]

\* Number.prototype.toString() of an integer.
numToString(n) == IF n < 0 THEN "-" \o natToString(-n) ELSE natToString(n)

(***************************************************************************)
(* Commitment scheme (zkProof.ts)                                          *)
(***************************************************************************)
\* Lines 72-88 of createCommitment: Hash(BigEndian32(value) ++ RawBytes(salt)).
commitmentHash(value, salt) ==
    bytesToHex(sha256(setUint32(value) \o hexToBytes(salt)))

\* Mutant: the lower bound is compared with <=.
createCommitmentOffByOne(score, salt) ==
    IF score <= 300 \/ score > 850
    THEN Throw("Score must be between 300 and 850")
    ELSE IF hexToBytesThrows(salt)
    THEN Throw("hex string expected")
    ELSE Return(commitmentHash(score, salt))

createCommitment(score, salt) ==
    IF score < 300 \/ score > 850
    THEN Throw("Score must be between 300 and 850")
    ELSE IF hexToBytesThrows(salt)
    THEN Throw("hex string expected")
    ELSE Return(commitmentHash(score, salt))

\* Mutant: no try/catch around createCommitment.
verifyCommitmentNoCatch(score, salt, commitment) ==
    LET computed == createCommitment(score, salt)
    IN  IF computed.kind = "throw"
        THEN computed
        ELSE Return(computed.value = commitment)

verifyCommitment(score, salt, commitment) ==
    LET computed == createCommitment(score, salt)
    IN  IF computed.kind = "throw"
        THEN Return(FALSE)
        ELSE Return(computed.value = commitment)

(***************************************************************************)
(* Proof generators (zkProof.ts)                                           *)
(***************************************************************************)
\* sha256 of the text `${value}-${salt}-${suffix}`, hex encoded.
generateProofElement(value, salt, suffix) ==
    [digestOf |-> <<numToString(value), salt, suffix>>]

\* bytesToHex(new TextEncoder().encode(JSON.stringify(proofData)))
serializeProofData(proofData) == [hexOfJson |-> proofData]

\* Mutant: the commitment is not re-verified.
generateZKProofNoCommitmentCheck(inputs) ==
    IF inputs.score < inputs.minScore
    THEN Throw("Score " \o numToString(inputs.score)
               \o " does not meet minimum threshold " \o numToString(inputs.minScore))
    ELSE IF inputs.score < 300 \/ inputs.score > 850
    THEN Throw("Invalid score range")
    ELSE Return(serializeProofData(
            [pi_a |-> generateProofElement(inputs.score, inputs.salt, "a"),
             pi_b |-> generateProofElement(inputs.score, inputs.salt, "b"),
             pi_c |-> generateProofElement(inputs.score, inputs.salt, "c"),
             protocol |-> "noir",
             circuit |-> "prove_score_threshold"]))

generateZKProof(inputs) ==
    IF ~verifyCommitment(inputs.score, inputs.salt, inputs.commitment).value
    THEN Throw("Commitment verification failed - score/salt mismatch")
    ELSE IF inputs.score < inputs.minScore
    THEN Throw("Score " \o numToString(inputs.score)
               \o " does not meet minimum threshold " \o numToString(inputs.minScore))
    ELSE IF inputs.score < 300 \/ inputs.score > 850
    THEN Throw("Invalid score range")
    ELSE Return(serializeProofData(
            [pi_a |-> generateProofElement(inputs.score, inputs.salt, "a"),
             pi_b |-> generateProofElement(inputs.score, inputs.salt, "b"),
             pi_c |-> generateProofElement(inputs.score, inputs.salt, "c"),
             protocol |-> "noir",
             circuit |-> "prove_score_threshold"]))

\* `now` is the value of Date.now() read after the prover has returned.
generateCompleteProof(inputs, now) ==
    LET proof == generateZKProof(inputs)
    IN  IF proof.kind = "throw" THEN proof
        ELSE Return(
            [proof |-> proof.value,
             publicInputs |-> <<inputs.commitment,
                                numToString(inputs.minScore),
                                inputs.poolId,
                                numToString(inputs.nonce),
                                numToString(now \div 1000)>>,
             commitment |-> inputs.commitment,
             timestamp |-> now,
             expiresAt |-> now + 60 * 60 * 1000])

\* (num / den) * 10000 > bound in IEEE arithmetic, for non-negative integers:
\* x/0 is Infinity for x > 0 and NaN for x = 0, and NaN compares false.
\* Finite ratios are compared exactly; the double rounding of the code can
\* differ only where num * 10000 = bound * den, and there only by throwing.
ratioAbove(num, den, bound) ==
    IF den = 0 THEN num > 0 ELSE num * 10000 > bound * den

\* (num / den) * 10000 < bound, likewise.
ratioBelow(num, den, bound) ==
    IF den = 0 THEN FALSE ELSE num * 10000 < bound * den

generateDTIProof(inputs) ==
    IF ratioAbove(inputs.monthlyDebt, inputs.monthlyIncome, inputs.maxDTI)
    THEN Throw("DTI ratio exceeds maximum")
    ELSE Return(serializeProofData(
            [pi_a |-> generateProofElement(inputs.monthlyIncome, inputs.incomeSalt, "dti-a"),
             pi_b |-> generateProofElement(inputs.monthlyDebt, inputs.debtSalt, "dti-b"),
             pi_c |-> generateProofElement(inputs.monthlyIncome + inputs.monthlyDebt,
                                           inputs.incomeSalt, "dti-c"),
             protocol |-> "noir",
             circuit |-> "prove_dti_ratio"]))

generatePaymentHistoryProof(inputs) ==
    IF ratioBelow(inputs.onTimePayments, inputs.totalPayments, inputs.minPaymentRate)
    THEN Throw("Payment rate below minimum")
    ELSE IF inputs.totalPayments < inputs.minPaymentCount
    THEN Throw("Only " \o numToString(inputs.totalPayments) \o " payments, minimum "
               \o numToString(inputs.minPaymentCount) \o " required")
    ELSE Return(serializeProofData(
            [pi_a |-> generateProofElement(inputs.onTimePayments, inputs.historySalt, "payment-a"),
             pi_b |-> generateProofElement(inputs.totalPayments, inputs.historySalt, "payment-b"),
             pi_c |-> generateProofElement(inputs.onTimePayments + inputs.totalPayments,
                                           inputs.historySalt, "payment-c"),
             protocol |-> "noir",
             circuit |-> "prove_payment_history"]))

generateCreditworthyProof(inputs, now) ==
    IF inputs.score < inputs.minScore
    THEN Throw("Score " \o numToString(inputs.score) \o " below minimum "
               \o numToString(inputs.minScore))
    ELSE IF ratioAbove(inputs.monthlyDebt, inputs.monthlyIncome, inputs.maxDTI)
    THEN Throw("DTI ratio exceeds maximum")
    ELSE IF ratioBelow(inputs.onTimePayments, inputs.totalPayments, inputs.minPaymentRate)
    THEN Throw("Payment rate below minimum")
    ELSE Return(
            [proof |-> serializeProofData(
                [pi_a |-> generateProofElement(inputs.score, inputs.salt, "master-a"),
                 pi_b |-> generateProofElement(inputs.monthlyIncome, inputs.salt, "master-b"),
                 pi_c |-> generateProofElement(inputs.onTimePayments, inputs.salt, "master-c"),
                 protocol |-> "noir",
                 circuit |-> "prove_creditworthy",
                 checks |-> <<"score", "dti", "payment_history">>]),
             publicInputs |-> <<inputs.commitment,
                                numToString(inputs.minScore),
                                numToString(inputs.maxDTI),
                                numToString(inputs.minPaymentRate),
                                inputs.poolId,
                                numToString(inputs.nonce)>>,
             commitment |-> inputs.commitment,
             timestamp |-> now,
             expiresAt |-> now + 60 * 60 * 1000])

\* Mutant: the nonce of a new record starts at 0.
createCommitmentDataFromZero(score, salt) ==
    LET hash == createCommitment(score, salt)
    IN  IF hash.kind = "throw" THEN hash
        ELSE Return([hash |-> hash.value, salt |-> salt, nonce |-> 0, expiresIn |-> 30])

\* createCommitmentData with the salt generateSalt() drew.
createCommitmentData(score, salt) ==
    LET hash == createCommitment(score, salt)
    IN  IF hash.kind = "throw" THEN hash
        ELSE Return([hash |-> hash.value, salt |-> salt, nonce |-> 1, expiresIn |-> 30])

(***************************************************************************)
(* Score engine (lib/creditScore)                                          *)
(*                                                                         *)
(* JavaScript numbers are modelled as exact fractions [n, d] in lowest     *)
(* terms with d > 0; metrics are non-negative integers.                    *)
(***************************************************************************)
CREDIT_SCORE_MIN == 300

CREDIT_SCORE_MAX == 850

WEIGHTS ==
    [paymentHistory |-> 35, creditUtilization |-> 30, accountHistory |-> 15,
     protocolDiversity |-> 10, recentActivity |-> 10]

RECURSIVE GCD(_, _)
GCD(a, b) == IF b = 0 THEN a ELSE GCD(b, a % b)

Abs(x) == IF x < 0 THEN -x ELSE x

Frac(n, d) ==
    LET g == GCD(Abs(n), d)
    IN  [n |-> n \div g, d |-> d \div g]

Whole(k) == [n |-> k, d |-> 1]

FAdd(x, y) == Frac(x.n * y.d + y.n * x.d, x.d * y.d)

FMul(x, y) == Frac(x.n * y.n, x.d * y.d)

FLess(x, y) == x.n * y.d < y.n * x.d

FLeq(x, y) == x.n * y.d <= y.n * x.d

\* Math.max and Math.min
FMax(x, y) == IF FLess(x, y) THEN y ELSE x

FMin(x, y) == IF FLess(y, x) THEN y ELSE x

\* Math.round: the integer nearest to x, halves rounded up.
MathRound(x) == (2 * x.n + x.d) \div (2 * x.d)

\* Mutant: the weighted value is not brought back to the 0-100 scale.
ComponentUnscaled(score, weight, rating) ==
    [score |-> score,
     weighted |-> FMul(score, Whole(weight)),
     weight |-> weight,
     rating |-> rating]

\* The component's return statement: weighted = (score / 100) * weight.
Component(score, weight, rating) ==
    [score |-> score,
     weighted |-> FMul(FMul(score, Frac(1, 100)), Whole(weight)),
     weight |-> weight,
     rating |-> rating]

\* Mutant: defaults are left out of the number of payments.
calculatePaymentHistoryScoreNoDefaults(metrics) ==
    LET totalPayments == metrics.onTimePayments + metrics.latePayments
    IN  IF totalPayments = 0
        THEN Component(Whole(50), WEIGHTS.paymentHistory, "Fair")
        ELSE LET onTimeRate == Frac(metrics.onTimePayments, totalPayments)
                 defaultPenalty == metrics.defaults * 15
                 latePenalty == metrics.latePayments * 5
                 score == FMax(Whole(0), FAdd(FMul(onTimeRate, Whole(100)),
                                            Whole(0 - defaultPenalty - latePenalty)))
                 rating == IF FLeq(Whole(90), score) THEN "Excellent"
                           ELSE IF FLeq(Whole(75), score) THEN "Very Good"
                           ELSE IF FLeq(Whole(60), score) THEN "Good"
                           ELSE IF FLeq(Whole(40), score) THEN "Fair"
                           ELSE "Poor"
             IN  Component(score, WEIGHTS.paymentHistory, rating)

calculatePaymentHistoryScore(metrics) ==
    LET totalPayments == metrics.onTimePayments + metrics.latePayments + metrics.defaults
    IN  IF totalPayments = 0
        THEN Component(Whole(50), WEIGHTS.paymentHistory, "Fair")
        ELSE LET onTimeRate == Frac(metrics.onTimePayments, totalPayments)
                 defaultPenalty == metrics.defaults * 15
                 latePenalty == metrics.latePayments * 5
                 score == FMax(Whole(0), FAdd(FMul(onTimeRate, Whole(100)),
                                            Whole(0 - defaultPenalty - latePenalty)))
                 rating == IF FLeq(Whole(90), score) THEN "Excellent"
                           ELSE IF FLeq(Whole(75), score) THEN "Very Good"
                           ELSE IF FLeq(Whole(60), score) THEN "Good"
                           ELSE IF FLeq(Whole(40), score) THEN "Fair"
                           ELSE "Poor"
             IN  Component(score, WEIGHTS.paymentHistory, rating)

\* Mutant: the band limits are compared with < instead of <=.
calculateUtilizationScoreStrictBands(metrics) ==
    IF metrics.totalBorrowed = 0
    THEN Component(Whole(70), WEIGHTS.creditUtilization, "Good")
    ELSE LET currentDebt == IF metrics.totalBorrowed - metrics.totalRepaid > 0
                            THEN metrics.totalBorrowed - metrics.totalRepaid ELSE 0
             utilization == Frac(currentDebt, metrics.totalBorrowed)
         IN  IF FLess(utilization, Frac(1, 10))
             THEN Component(Whole(95), WEIGHTS.creditUtilization, "Excellent")
             ELSE IF FLess(utilization, Frac(3, 10))
             THEN Component(Whole(90), WEIGHTS.creditUtilization, "Excellent")
             ELSE IF FLess(utilization, Frac(5, 10))
             THEN Component(Whole(75), WEIGHTS.creditUtilization, "Good")
             ELSE IF FLess(utilization, Frac(7, 10))
             THEN Component(Whole(50), WEIGHTS.creditUtilization, "Fair")
             ELSE IF FLess(utilization, Frac(9, 10))
             THEN Component(Whole(30), WEIGHTS.creditUtilization, "Poor")
             ELSE Component(Whole(10), WEIGHTS.creditUtilization, "Poor")

calculateUtilizationScore(metrics) ==
    IF metrics.totalBorrowed = 0
    THEN Component(Whole(70), WEIGHTS.creditUtilization, "Good")
    ELSE LET currentDebt == IF metrics.totalBorrowed - metrics.totalRepaid > 0
                            THEN metrics.totalBorrowed - metrics.totalRepaid ELSE 0
             utilization == Frac(currentDebt, metrics.totalBorrowed)
         IN  IF FLeq(utilization, Frac(1, 10))
             THEN Component(Whole(95), WEIGHTS.creditUtilization, "Excellent")
             ELSE IF FLeq(utilization, Frac(3, 10))
             THEN Component(Whole(90), WEIGHTS.creditUtilization, "Excellent")
             ELSE IF FLeq(utilization, Frac(5, 10))
             THEN Component(Whole(75), WEIGHTS.creditUtilization, "Good")
             ELSE IF FLeq(utilization, Frac(7, 10))
             THEN Component(Whole(50), WEIGHTS.creditUtilization, "Fair")
             ELSE IF FLeq(utilization, Frac(9, 10))
             THEN Component(Whole(30), WEIGHTS.creditUtilization, "Poor")
             ELSE Component(Whole(10), WEIGHTS.creditUtilization, "Poor")

\* Mutant: no activity at all is scored like an account under 30 days old.
calculateAccountHistoryScoreNoZeroCase(metrics) ==
    LET days == metrics.oldestActivityDays
    IN  IF days < 30 THEN Component(Whole(30), WEIGHTS.accountHistory, "Poor")
        ELSE IF days < 90 THEN Component(Whole(50), WEIGHTS.accountHistory, "Fair")
        ELSE IF days < 180 THEN Component(Whole(65), WEIGHTS.accountHistory, "Good")
        ELSE IF days < 365 THEN Component(Whole(80), WEIGHTS.accountHistory, "Very Good")
        ELSE Component(Whole(95), WEIGHTS.accountHistory, "Excellent")

calculateAccountHistoryScore(metrics) ==
    LET days == metrics.oldestActivityDays
    IN  IF days = 0 THEN Component(Whole(20), WEIGHTS.accountHistory, "Poor")
        ELSE IF days < 30 THEN Component(Whole(30), WEIGHTS.accountHistory, "Poor")
        ELSE IF days < 90 THEN Component(Whole(50), WEIGHTS.accountHistory, "Fair")
        ELSE IF days < 180 THEN Component(Whole(65), WEIGHTS.accountHistory, "Good")
        ELSE IF days < 365 THEN Component(Whole(80), WEIGHTS.accountHistory, "Very Good")
        ELSE Component(Whole(95), WEIGHTS.accountHistory, "Excellent")

calculateDiversityScore(metrics) ==
    LET protocolCount == Cardinality(metrics.uniqueProtocols)
    IN  IF protocolCount = 0 THEN Component(Whole(20), WEIGHTS.protocolDiversity, "Poor")
        ELSE IF protocolCount = 1 THEN Component(Whole(40), WEIGHTS.protocolDiversity, "Fair")
        ELSE IF protocolCount <= 3 THEN Component(Whole(60), WEIGHTS.protocolDiversity, "Good")
        ELSE IF protocolCount <= 5
        THEN Component(Whole(80), WEIGHTS.protocolDiversity, "Very Good")
        ELSE Component(Whole(95), WEIGHTS.protocolDiversity, "Excellent")

\* Mutant: the bonus is added without the clamp to 100.
calculateActivityScoreUnclamped(metrics) ==
    IF metrics.totalTransactions = 0
    THEN Component(Whole(20), WEIGHTS.recentActivity, "Poor")
    ELSE LET months == FMax(Whole(1), Frac(metrics.oldestActivityDays, 30))
             txPerMonth == Frac(metrics.totalTransactions * months.d, months.n)
             activityScore == IF FLeq(Whole(20), txPerMonth) THEN 95
                              ELSE IF FLeq(Whole(10), txPerMonth) THEN 85
                              ELSE IF FLeq(Whole(5), txPerMonth) THEN 70
                              ELSE IF FLeq(Whole(2), txPerMonth) THEN 50
                              ELSE 30
             valueBonus == FMin(Whole(10), Frac(metrics.averageTransactionValue, 100))
             score == FAdd(Whole(activityScore), valueBonus)
             rating == IF FLeq(Whole(85), score) THEN "Excellent"
                       ELSE IF FLeq(Whole(70), score) THEN "Very Good"
                       ELSE IF FLeq(Whole(50), score) THEN "Good"
                       ELSE IF FLeq(Whole(30), score) THEN "Fair"
                       ELSE "Poor"
         IN  Component(score, WEIGHTS.recentActivity, rating)

calculateActivityScore(metrics) ==
    IF metrics.totalTransactions = 0
    THEN Component(Whole(20), WEIGHTS.recentActivity, "Poor")
    ELSE LET months == FMax(Whole(1), Frac(metrics.oldestActivityDays, 30))
             txPerMonth == Frac(metrics.totalTransactions * months.d, months.n)
             activityScore == IF FLeq(Whole(20), txPerMonth) THEN 95
                              ELSE IF FLeq(Whole(10), txPerMonth) THEN 85
                              ELSE IF FLeq(Whole(5), txPerMonth) THEN 70
                              ELSE IF FLeq(Whole(2), txPerMonth) THEN 50
                              ELSE 30
             valueBonus == FMin(Whole(10), Frac(metrics.averageTransactionValue, 100))
             score == FMin(Whole(100), FAdd(Whole(activityScore), valueBonus))
             rating == IF FLeq(Whole(85), score) THEN "Excellent"
                       ELSE IF FLeq(Whole(70), score) THEN "Very Good"
                       ELSE IF FLeq(Whole(50), score) THEN "Good"
                       ELSE IF FLeq(Whole(30), score) THEN "Fair"
                       ELSE "Poor"
         IN  Component(score, WEIGHTS.recentActivity, rating)

getTierFromScore(score) ==
    IF score >= 800 THEN "Excellent"
    ELSE IF score >= 740 THEN "Very Good"
    ELSE IF score >= 670 THEN "Good"
    ELSE IF score >= 580 THEN "Fair"
    ELSE "Poor"

WithPriority(recs, p) == SelectSeq(recs, LAMBDA r : r.priority = p)

\* Mutant: the list is returned in push order, without the sort.
generateRecommendationsUnsorted(breakdown) ==
    LET pushed ==
            (IF FLess(breakdown.paymentHistory.score, Whole(70))
             THEN <<[title |-> "Improve Payment History", impact |-> 25, priority |-> "high"]>>
             ELSE <<>>)
            \o (IF FLess(breakdown.creditUtilization.score, Whole(70))
                THEN <<[title |-> "Reduce Credit Utilization", impact |-> 20, priority |-> "high"]>>
                ELSE <<>>)
            \o (IF FLess(breakdown.accountHistory.score, Whole(50))
                THEN <<[title |-> "Build Account History", impact |-> 10, priority |-> "low"]>>
                ELSE <<>>)
            \o (IF FLess(breakdown.protocolDiversity.score, Whole(60))
                THEN <<[title |-> "Diversify Protocol Usage", impact |-> 8, priority |-> "medium"]>>
                ELSE <<>>)
            \o (IF FLess(breakdown.recentActivity.score, Whole(50))
                THEN <<[title |-> "Increase Activity", impact |-> 8, priority |-> "medium"]>>
                ELSE <<>>)
    IN  SubSeq(pushed, 1, IF Len(pushed) < 5 THEN Len(pushed) ELSE 5)

generateRecommendations(breakdown) ==
    LET pushed ==
            (IF FLess(breakdown.paymentHistory.score, Whole(70))
             THEN <<[title |-> "Improve Payment History", impact |-> 25, priority |-> "high"]>>
             ELSE <<>>)
            \o (IF FLess(breakdown.creditUtilization.score, Whole(70))
                THEN <<[title |-> "Reduce Credit Utilization", impact |-> 20, priority |-> "high"]>>
                ELSE <<>>)
            \o (IF FLess(breakdown.accountHistory.score, Whole(50))
                THEN <<[title |-> "Build Account History", impact |-> 10, priority |-> "low"]>>
                ELSE <<>>)
            \o (IF FLess(breakdown.protocolDiversity.score, Whole(60))
                THEN <<[title |-> "Diversify Protocol Usage", impact |-> 8, priority |-> "medium"]>>
                ELSE <<>>)
            \o (IF FLess(breakdown.recentActivity.score, Whole(50))
                THEN <<[title |-> "Increase Activity", impact |-> 8, priority |-> "medium"]>>
                ELSE <<>>)
        \* Array.prototype.sort is stable: by priority, push order kept within one.
        sorted == WithPriority(pushed, "high") \o WithPriority(pushed, "medium")
                    \o WithPriority(pushed, "low")
    IN  SubSeq(sorted, 1, IF Len(sorted) < 5 THEN Len(sorted) ELSE 5)

\* Mutant: the scale spans MAX instead of MAX - MIN and the clamp is missing.
scaleScoreUnclamped(totalWeighted) ==
    MathRound(FAdd(Whole(CREDIT_SCORE_MIN),
                   FMul(FMul(totalWeighted, Frac(1, 100)), Whole(CREDIT_SCORE_MAX))))

\* Mutant: Math.floor in place of Math.round.
scaleScoreFloor(totalWeighted) ==
    LET rawScore == FAdd(Whole(CREDIT_SCORE_MIN),
                         FMul(FMul(totalWeighted, Frac(1, 100)),
                              Whole(CREDIT_SCORE_MAX - CREDIT_SCORE_MIN)))
        clamped == FMin(Whole(CREDIT_SCORE_MAX), FMax(Whole(CREDIT_SCORE_MIN), rawScore))
    IN  clamped.n \div clamped.d

\* The clamp of the raw score into [MIN, MAX], then Math.round.
scaleScore(totalWeighted) ==
    LET rawScore == FAdd(Whole(CREDIT_SCORE_MIN),
                         FMul(FMul(totalWeighted, Frac(1, 100)),
                              Whole(CREDIT_SCORE_MAX - CREDIT_SCORE_MIN)))
    IN  MathRound(FMin(Whole(CREDIT_SCORE_MAX), FMax(Whole(CREDIT_SCORE_MIN), rawScore)))

\* `now` is the value Date.now() returns for lastUpdated.
calculateCreditScore(metrics, now) ==
    LET paymentHistory == calculatePaymentHistoryScore(metrics)
        creditUtilization == calculateUtilizationScore(metrics)
        accountHistory == calculateAccountHistoryScore(metrics)
        protocolDiversity == calculateDiversityScore(metrics)
        recentActivity == calculateActivityScore(metrics)
        totalWeighted ==
            FAdd(FAdd(FAdd(FAdd(paymentHistory.weighted, creditUtilization.weighted),
                           accountHistory.weighted),
                      protocolDiversity.weighted),
                 recentActivity.weighted)
        score == scaleScore(totalWeighted)
        breakdown == [paymentHistory |-> paymentHistory,
                      creditUtilization |-> creditUtilization,
                      accountHistory |-> accountHistory,
                      protocolDiversity |-> protocolDiversity,
                      recentActivity |-> recentActivity]
    IN  [score |-> score,
         tier |-> getTierFromScore(score),
         breakdown |-> breakdown,
         recommendations |-> generateRecommendations(breakdown),
         trend |-> "stable",
         lastUpdated |-> now]

(***************************************************************************)
(* Inputs of the function-level specifications                             *)
(***************************************************************************)
SaltA == <<"a", "1">>

SaltB == <<"0", "f">>

\* Same bytes as SaltA, written in upper case.
SaltUpper == <<"A", "1">>

WellFormedSalts == {SaltA, SaltB, SaltUpper}

\* Odd length; a character that is no hex digit.
MalformedSalts == {<<"a">>, <<"g", "1">>}

Salts == WellFormedSalts \cup MalformedSalts

ScoreLow == 295

ScoreHigh == 855

\* Every score of the valid range and a margin on both sides.
ScoreRange == ScoreLow..ScoreHigh

\* Scores far outside the valid range.
FarScores == {0, 200, 900}

ProbeScores == {300, 650}

SampleScores == {299, 300, 649, 650, 850, 851}

\* Not a digest: a non-hex text, and a digest written in upper case.
MalformedHashes == {<<"z", "z">>, <<"0", "5", "0", "0", "0", "0", "0", "2", "8", "A", "A", "1">>}

\* What a caller may pass as the public commitment of (score, salt): the
\* digest of these or of other values, or no digest at all.
Candidates(score) ==
    {commitmentHash(s, t) : s \in {score} \cup ProbeScores, t \in WellFormedSalts}
        \cup MalformedHashes

MinScores == {300, 650, 900}

PoolIds == {"usdc-prime"}

Nonces == {1, 2}

\* Date.now() in milliseconds (small enough for 32-bit arithmetic).
Clock == {1999, 1700000999}

ProofInputsSet ==
    UNION {{[score |-> sc, salt |-> sa, commitment |-> c, minScore |-> m, poolId |-> p, nonce |-> n] :
                c \in Candidates(sc), m \in MinScores, p \in PoolIds, n \in Nonces} :
            sc \in SampleScores, sa \in Salts}

Amounts == {0, 7, 3000, 5000}

ValueCommitments(v) ==
    {commitmentHash(v, SaltA), commitmentHash(v + 1, SaltA), <<"z", "z">>}

DTIProofInputsSet ==
    {[monthlyIncome |-> i, monthlyDebt |-> d, incomeSalt |-> SaltA, debtSalt |-> SaltB,
      incomeCommitment |-> ic, debtCommitment |-> commitmentHash(d, SaltB),
      maxDTI |-> m, poolId |-> "usdc-prime", nonce |-> 1] :
        i \in Amounts, d \in Amounts, ic \in UNION {ValueCommitments(v) : v \in Amounts},
        m \in {0, 4000}}

PaymentCounts == {0, 1, 9, 10}

\* The history commitment binds both private counts under historySalt.
historyCommitmentOf(onTime, total, salt) ==
    bytesToHex(sha256(setUint32(onTime) \o setUint32(total) \o hexToBytes(salt)))

PaymentHistoryProofInputsSet ==
    {[onTimePayments |-> o, totalPayments |-> t, historySalt |-> SaltA,
      historyCommitment |-> hc, minPaymentRate |-> r, minPaymentCount |-> c,
      poolId |-> "usdc-prime", nonce |-> 1] :
        o \in PaymentCounts, t \in PaymentCounts,
        hc \in {historyCommitmentOf(9, 10, SaltA), <<"z", "z">>},
        r \in {0, 9000}, c \in {0, 5}}

CreditworthyProofInputsSet ==
    {[score |-> sc, salt |-> SaltA, commitment |-> c, minScore |-> 650,
      poolId |-> "usdc-prime", nonce |-> 1,
      monthlyIncome |-> i, monthlyDebt |-> d, onTimePayments |-> o, totalPayments |-> t,
      maxDTI |-> 4000, minPaymentRate |-> 9000, minPaymentCount |-> pc] :
        sc \in {649, 650, 851}, c \in {commitmentHash(650, SaltA), <<"z", "z">>},
        i \in {0, 5000}, d \in {0, 3000}, o \in {0, 1, 9}, t \in {0, 1, 10}, pc \in {0, 5}}

\* The calls of the function-level specification, one per initial state.
IsRequest(r) ==
    \/ \E sc \in ScoreRange \cup FarScores, sa \in Salts :
            r = [op |-> "createCommitment", score |-> sc, salt |-> sa]
    \/ \E sc \in ScoreRange, sa \in Salts : \E c \in Candidates(sc) :
            r = [op |-> "verifyCommitment", score |-> sc, salt |-> sa, commitment |-> c]
    \/ \E i \in ProofInputsSet :
            r = [op |-> "generateZKProof", inputs |-> i]
    \/ \E i \in ProofInputsSet, t \in Clock :
            r = [op |-> "generateCompleteProof", inputs |-> i, now |-> t]
    \/ \E i \in DTIProofInputsSet :
            r = [op |-> "generateDTIProof", inputs |-> i]
    \/ \E i \in PaymentHistoryProofInputsSet :
            r = [op |-> "generatePaymentHistoryProof", inputs |-> i]
    \/ \E i \in CreditworthyProofInputsSet, t \in Clock :
            r = [op |-> "generateCreditworthyProof", inputs |-> i, now |-> t]

(***************************************************************************)
(* Function-level specification: one call of a zkProof.ts export           *)
(***************************************************************************)
IdleStore == [a \in {"w1", "w2"} |-> NullObject]

IdleState ==
    [creditScore |-> NullObject, commitment |-> NullObject, isLoading |-> FALSE,
     error |-> Null]

IdleBorrow ==
    [selectedPool |-> Null, currentStep |-> 1, zkProof |-> NullObject,
     isGeneratingProof |-> FALSE, error |-> Null]

lifecycleVars == <<store, state, pending, proofs, borrow, n0>>

LifecycleIdle ==
    /\ store = IdleStore
    /\ state = IdleState
    /\ pending = <<>>
    /\ proofs = <<>>
    /\ borrow = IdleBorrow
    /\ n0 = 0

InitZK ==
    /\ IsRequest(req)
    /\ res = Pending
    /\ LifecycleIdle

Call(op, result) ==
    /\ req.op = op
    /\ res = Pending
    /\ res' = result
    /\ UNCHANGED <<req, lifecycleVars>>

CallCreateCommitment ==
    Call("createCommitment", createCommitment(req.score, req.salt))

CallVerifyCommitment ==
    Call("verifyCommitment", verifyCommitment(req.score, req.salt, req.commitment))

CallGenerateZKProof ==
    Call("generateZKProof", generateZKProof(req.inputs))

CallGenerateCompleteProof ==
    Call("generateCompleteProof", generateCompleteProof(req.inputs, req.now))

CallGenerateDTIProof ==
    Call("generateDTIProof", generateDTIProof(req.inputs))

CallGeneratePaymentHistoryProof ==
    Call("generatePaymentHistoryProof", generatePaymentHistoryProof(req.inputs))

CallGenerateCreditworthyProof ==
    Call("generateCreditworthyProof", generateCreditworthyProof(req.inputs, req.now))

NextZK ==
    \/ CallCreateCommitment
    \/ CallVerifyCommitment
    \/ CallGenerateZKProof
    \/ CallGenerateCompleteProof
    \/ CallGenerateDTIProof
    \/ CallGeneratePaymentHistoryProof
    \/ CallGenerateCreditworthyProof

SpecZK == InitZK /\ [][NextZK]_vars

(***************************************************************************)
(* Properties of the commitment scheme and the proof generators            *)
(***************************************************************************)
Done(ops) == req.op \in ops /\ res # Pending

InRange(score) == score >= 300 /\ score <= 850

CommitmentMismatchError == Throw("Commitment verification failed - score/salt mismatch")

ScoreBelowThresholdError(score, minScore) ==
    Throw("Score " \o numToString(score) \o " does not meet minimum threshold "
          \o numToString(minScore))

\* The artifact a finished generateZKProof or generateCompleteProof call returned.
ReturnedArtifact == res.kind = "return"

\* C3 as stated: generateZKProof and generateCompleteProof return only if the
\* commitment verifies and score >= minScore; a mismatching commitment gives the
\* commitment-mismatch error and score < minScore gives the threshold error.
ProofSoundnessAsStated ==
    Done({"generateZKProof", "generateCompleteProof"}) =>
        LET i == req.inputs
            matches == verifyCommitment(i.score, i.salt, i.commitment).value
        IN  /\ ReturnedArtifact => (matches /\ i.score >= i.minScore)
            /\ ~matches => res = CommitmentMismatchError
            /\ i.score < i.minScore => res = ScoreBelowThresholdError(i.score, i.minScore)

\* C3 amended: as stated, except that the threshold error is the one reported
\* only when the commitment verifies; the commitment check comes first.
ProofSoundness ==
    Done({"generateZKProof", "generateCompleteProof"}) =>
        LET i == req.inputs
            matches == verifyCommitment(i.score, i.salt, i.commitment).value
        IN  /\ ReturnedArtifact => (matches /\ i.score >= i.minScore)
            /\ ~matches => res = CommitmentMismatchError
            /\ (matches /\ i.score < i.minScore) =>
                    res = ScoreBelowThresholdError(i.score, i.minScore)

\* A call with a verifying commitment and a score below the threshold was
\* rejected with the threshold error.
ProofSoundnessWitness ==
    /\ Done({"generateZKProof", "generateCompleteProof"})
    /\ verifyCommitment(req.inputs.score, req.inputs.salt, req.inputs.commitment).value
    /\ req.inputs.score < req.inputs.minScore
    /\ res = ScoreBelowThresholdError(req.inputs.score, req.inputs.minScore)

\* C4: generateCreditworthyProof fails whenever the commitment is not the
\* commitment of (score, salt) or the score is outside [300,850].
CreditworthyChecksCommitment ==
    Done({"generateCreditworthyProof"}) =>
        LET i == req.inputs
        IN  (createCommitment(i.score, i.salt) # Return(i.commitment) \/ ~InRange(i.score))
                => res.kind = "throw"

\* The predicates as the claim states them, in IEEE arithmetic: a NaN ratio
\* satisfies no comparison, an infinite one only >=.
RatioAtMost(num, den, bound) == den # 0 /\ num * 10000 <= bound * den

RatioAtLeast(num, den, bound) ==
    IF den = 0 THEN num > 0 ELSE num * 10000 >= bound * den

\* C5: generateCreditworthyProof returns a proof only if score >= minScore,
\* DTI ratio <= maxDTI, payment rate >= minPaymentRate and
\* totalPayments >= minPaymentCount all hold.
CreditworthyAtomic ==
    (Done({"generateCreditworthyProof"}) /\ res.kind = "return") =>
        LET i == req.inputs
        IN  /\ i.score >= i.minScore
            /\ RatioAtMost(i.monthlyDebt, i.monthlyIncome, i.maxDTI)
            /\ RatioAtLeast(i.onTimePayments, i.totalPayments, i.minPaymentRate)
            /\ i.totalPayments >= i.minPaymentCount

\* C6: generateDTIProof returns only if both commitments are reproduced by the
\* private value and its salt, and generatePaymentHistoryProof only if the
\* history commitment is reproduced by the private counts and historySalt.
StandaloneProofsBound ==
    /\ (Done({"generateDTIProof"}) /\ res.kind = "return") =>
            /\ req.inputs.incomeCommitment
                    = commitmentHash(req.inputs.monthlyIncome, req.inputs.incomeSalt)
            /\ req.inputs.debtCommitment
                    = commitmentHash(req.inputs.monthlyDebt, req.inputs.debtSalt)
    /\ (Done({"generatePaymentHistoryProof"}) /\ res.kind = "return") =>
            req.inputs.historyCommitment
                = historyCommitmentOf(req.inputs.onTimePayments, req.inputs.totalPayments,
                                      req.inputs.historySalt)

\* C7: createCommitment throws for every score below 300 or above 850 and
\* returns a hash for every score in [300,850] with a well-formed salt.
CreateCommitmentRange ==
    Done({"createCommitment"}) =>
        /\ ~InRange(req.score) => res.kind = "throw"
        /\ (InRange(req.score) /\ req.salt \in WellFormedSalts) => res.kind = "return"

\* createCommitment(900, salt) was called and threw.
CreateCommitmentRangeWitness ==
    /\ Done({"createCommitment"})
    /\ req.score = 900
    /\ req.salt \in WellFormedSalts
    /\ res = Throw("Score must be between 300 and 850")

\* C8: verifyCommitment never throws; it returns true for the commitment of
\* (score, salt) when score is in [300,850] and the salt well-formed, and false
\* for an out-of-range score, a malformed salt, a malformed hash or another hash.
CommitmentRoundTrip ==
    Done({"verifyCommitment"}) =>
        LET own == createCommitment(req.score, req.salt)
        IN  /\ res.kind = "return"
            /\ (InRange(req.score) /\ req.salt \in WellFormedSalts
                    /\ own = Return(req.commitment)) => res.value = TRUE
            /\ (~InRange(req.score) \/ req.salt \in MalformedSalts
                    \/ req.commitment \in MalformedHashes
                    \/ own # Return(req.commitment)) => res.value = FALSE

\* The commitment of (score, salt) was verified against (score, salt).
CommitmentRoundTripWitness ==
    /\ Done({"verifyCommitment"})
    /\ InRange(req.score)
    /\ req.salt \in WellFormedSalts
    /\ createCommitment(req.score, req.salt) = Return(req.commitment)
    /\ res = Return(TRUE)

\* createCommitment over the valid scores and the well-formed salts.
CommitmentOf ==
    [salt \in WellFormedSalts |-> [score \in 300..850 |-> createCommitment(score, salt)]]

\* C9: under one salt, two distinct scores of [300,850] have distinct
\* commitments, so the commitment of one never verifies for the other.
CommitmentBinding ==
    (Done({"verifyCommitment"}) /\ InRange(req.score) /\ req.salt \in WellFormedSalts) =>
        LET under == CommitmentOf[req.salt]
        IN  \A score1 \in 300..850 :
                score1 # req.score =>
                    /\ under[score1] # under[req.score]
                    /\ (Return(req.commitment) = under[score1]) => res = Return(FALSE)

\* The commitment of 300 was offered for the score 556 (which differs from 300
\* only above the low byte) under the same salt, and was refused.
CommitmentBindingWitness ==
    /\ Done({"verifyCommitment"})
    /\ req.score = 556
    /\ req.salt \in WellFormedSalts
    /\ Return(req.commitment) = createCommitment(300, req.salt)
    /\ res = Return(FALSE)

(***************************************************************************)
(* Function-level specification: one call of calculateCreditScore          *)
(***************************************************************************)
ProtocolNames == <<"kamino", "marginfi", "solend", "drift", "jupiter", "orca">>

\* (totalBorrowed, totalRepaid): nothing borrowed, each utilization band, overpaid.
Loans ==
    {<<0, 0>>, <<1000, 1200>>, <<1000, 900>>, <<1000, 700>>, <<1000, 500>>,
     <<1000, 300>>, <<1000, 100>>, <<1000, 0>>}

MetricsSet ==
    {[onTimePayments |-> o, latePayments |-> l, defaults |-> d,
      totalBorrowed |-> loan[1], totalRepaid |-> loan[2],
      oldestActivityDays |-> days,
      uniqueProtocols |-> {ProtocolNames[i] : i \in 1..k},
      averageTransactionValue |-> avg,
      totalTransactions |-> tx,
      utilizationHistory |-> <<>>] :
        o \in {0, 9, 49}, l \in {0, 1}, d \in {0, 1}, loan \in Loans,
        days \in {0, 29, 30, 89, 90, 179, 180, 364, 365, 400},
        k \in 0..Len(ProtocolNames), avg \in {0, 200, 2000}, tx \in {0, 1, 50, 400}}

InitScore ==
    /\ \E m \in MetricsSet, t \in Clock :
            req = [op |-> "calculateCreditScore", metrics |-> m, now |-> t]
    /\ res = Pending
    /\ LifecycleIdle

CallCalculateCreditScore ==
    Call("calculateCreditScore", Return(calculateCreditScore(req.metrics, req.now)))

NextScore == CallCalculateCreditScore

SpecScore == InitScore /\ [][NextScore]_vars

\* C10: for all metrics the score is an integer with 300 <= score <= 850.
ScoreRangeInvariant ==
    Done({"calculateCreditScore"}) =>
        res.value.score \in CREDIT_SCORE_MIN..CREDIT_SCORE_MAX

\* A call on metrics with every component in its top band returned its score.
ScoreRangeWitness ==
    /\ Done({"calculateCreditScore"})
    /\ req.metrics.onTimePayments = 49
    /\ req.metrics.latePayments = 0
    /\ req.metrics.defaults = 0
    /\ req.metrics.totalRepaid = 1200
    /\ req.metrics.oldestActivityDays = 400
    /\ Cardinality(req.metrics.uniqueProtocols) = 6
    /\ req.metrics.totalTransactions = 400
    /\ req.metrics.averageTransactionValue = 2000
    /\ res.value.score > 800

(***************************************************************************)
(* Commitment lifecycle: usePrivateScore and the Borrow page               *)
(*                                                                         *)
(* One wallet is connected throughout and localStorage is available. The   *)
(* pages read one usePrivateScore state. Each proof generation is two      *)
(* steps, the call up to its await of the prover and the continuation      *)
(* after it; the prover's timers all run 2000 ms, so calls finish in the   *)
(* order they started. calculateScore and registerCommitment are taken as   *)
(* one step each; `limit` is the number of calls that may be in flight     *)
(* when another call starts.                                               *)
(***************************************************************************)
Addresses == {"w1", "w2"}

\* publicKey.toBase58() of the connected wallet
publicKey == "w1"

MaxInFlight == 2

MaxProofs == 2

\* What the indexer may report: no activity, or an established borrower.
EmptyMetrics ==
    [onTimePayments |-> 0, latePayments |-> 0, defaults |-> 0, totalBorrowed |-> 0,
     totalRepaid |-> 0, oldestActivityDays |-> 0, uniqueProtocols |-> {},
     averageTransactionValue |-> 0, totalTransactions |-> 0, utilizationHistory |-> <<>>]

ActiveMetrics ==
    [onTimePayments |-> 9, latePayments |-> 1, defaults |-> 0, totalBorrowed |-> 1000,
     totalRepaid |-> 900, oldestActivityDays |-> 400,
     uniqueProtocols |-> {"kamino", "marginfi", "solend", "drift"},
     averageTransactionValue |-> 200, totalTransactions |-> 50,
     utilizationHistory |-> <<Frac(100, 1000)>>]

IndexerMetrics == {EmptyMetrics, ActiveMetrics}

\* Salts generateSalt() may draw; no draw repeats an earlier one.
LifecycleSalts == {SaltA, SaltB}

LENDING_POOLS ==
    {[id |-> "usdc-prime", minScore |-> 650],
     [id |-> "sol-yield", minScore |-> 680],
     [id |-> "defi-max", minScore |-> 720]}

\* The pools offered on the Borrow page in the runs explored.
OfferedPools == {p \in LENDING_POOLS : p.minScore < 700}

\* Date.now() when a lifecycle call reads it; a second reading in the same
\* call may come a millisecond later.
LifecycleClock == {1700000999}

Tick == 1

\* Thresholds and pools a caller of the hook's generateProof may ask for.
HookMinScores == {650, 800}

HookPoolIds == {"usdc-prime"}

\* A record an earlier session left in localStorage.
EarlierRecord ==
    [hash |-> commitmentHash(771, SaltA), salt |-> SaltA, nonce |-> 2, expiresIn |-> 30]

\* The integers a stored record may carry.
JSONNumbers == -2..40

\* JSON.stringify of a CommitmentData: the text keeps hash and salt as they
\* are and writes nonce and expiresIn as decimal literals.
JSONstringify(commitment) ==
    [hash |-> commitment.hash,
     salt |-> commitment.salt,
     nonce |-> numToString(commitment.nonce),
     expiresIn |-> numToString(commitment.expiresIn)]

\* The number a decimal literal denotes.
NumberOfLiteral ==
    [literal \in {numToString(n) : n \in JSONNumbers} |->
        CHOOSE n \in JSONNumbers : numToString(n) = literal]

\* JSON.parse throws on a text that is no JSON.
JSONparseThrows(text) == DOMAIN text # {"hash", "salt", "nonce", "expiresIn"}

\* JSON.parse of a text JSON.stringify wrote.
JSONparse(text) ==
    [hash |-> text.hash,
     salt |-> text.salt,
     nonce |-> NumberOfLiteral[text.nonce],
     expiresIn |-> NumberOfLiteral[text.expiresIn]]

\* Mutant: the key does not include the address.
saveCommitmentToStorageOneKey(st, address, commitment) ==
    [a \in DOMAIN st |-> JSONstringify(commitment)]

\* localStorage.setItem(STORAGE_KEY_PREFIX + address, JSON.stringify(commitment))
saveCommitmentToStorage(st, address, commitment) ==
    [st EXCEPT ![address] = JSONstringify(commitment)]

\* loadCommitmentFromStorage: the value returned, and the store it leaves.
loadCommitmentFromStorage(st, address) ==
    IF st[address] = NullObject THEN NullObject
    ELSE IF JSONparseThrows(st[address]) THEN NullObject
    ELSE IF JSONparse(st[address]).expiresIn <= 0 THEN NullObject
    ELSE JSONparse(st[address])

storeAfterLoad(st, address) ==
    IF st[address] = NullObject THEN st
    ELSE IF JSONparseThrows(st[address]) THEN st
    ELSE IF JSONparse(st[address]).expiresIn <= 0
    THEN [st EXCEPT ![address] = NullObject]
    ELSE st

InitLifecycle ==
    /\ req = [op |-> "none"]
    /\ res = Pending
    /\ store \in {[a \in Addresses |-> IF a = publicKey THEN r ELSE NullObject] :
                    r \in {NullObject, JSONstringify(EarlierRecord)}}
    /\ state = IdleState
    /\ pending = <<>>
    /\ proofs = <<>>
    /\ borrow = IdleBorrow
    /\ n0 = IF store[publicKey] = NullObject THEN 0
            ELSE JSONparse(store[publicKey]).nonce

\* calculateScore: metrics from the indexer, the score, the stored commitment.
CalculateScore(limit) ==
    \E metrics \in IndexerMetrics, now \in LifecycleClock :
        /\ Len(pending) < limit
        /\ state' = [state EXCEPT
                        !.creditScore = calculateCreditScore(metrics, now),
                        !.commitment = loadCommitmentFromStorage(store, publicKey),
                        !.isLoading = FALSE,
                        !.error = Null]
        /\ store' = storeAfterLoad(store, publicKey)
        /\ UNCHANGED <<req, res, pending, proofs, borrow, n0>>

\* The effect on wallet connect: a stored commitment, if any, enters the state.
LoadOnConnect ==
    /\ LET storedCommitment == loadCommitmentFromStorage(store, publicKey)
       IN  state' = IF storedCommitment # NullObject
                    THEN [state EXCEPT !.commitment = storedCommitment]
                    ELSE state
    /\ store' = storeAfterLoad(store, publicKey)
    /\ UNCHANGED <<req, res, pending, proofs, borrow, n0>>

SaltsInUse ==
    {store[a].salt : a \in {x \in Addresses : store[x] # NullObject}}
        \cup (IF state.commitment = NullObject THEN {} ELSE {state.commitment.salt})
        \cup {pending[i].inputs.salt : i \in 1..Len(pending)}
        \cup {proofs[i].inputs.salt : i \in 1..Len(proofs)}

\* registerCommitment: the record is stored once the transaction is confirmed;
\* a failed transaction leaves the message in error and stores nothing.
RegisterCommitment(limit) ==
    /\ Len(pending) < limit
    /\ state.creditScore # NullObject
    /\ \E salt \in LifecycleSalts \ SaltsInUse, confirmed \in BOOLEAN :
        LET commitmentData == createCommitmentData(state.creditScore.score, salt)
        IN  IF commitmentData.kind = "return" /\ confirmed
            THEN /\ store' = saveCommitmentToStorage(store, publicKey, commitmentData.value)
                 /\ state' = [state EXCEPT !.commitment = commitmentData.value,
                                           !.isLoading = FALSE, !.error = Null]
                 /\ n0' = commitmentData.value.nonce
            ELSE /\ state' = [state EXCEPT
                                !.isLoading = FALSE,
                                !.error = IF commitmentData.kind = "throw"
                                          THEN commitmentData.msg
                                          ELSE "Transaction failed"]
                 /\ UNCHANGED <<store, n0>>
    /\ UNCHANGED <<req, res, pending, proofs, borrow>>

\* A call in flight is recorded with its inputs, the prover's artifact, the
\* record its closure captured, and `alone`: whether no other call was in
\* flight when it started (history kept for the claims, not program state).
\* Calls returned or in flight, in all.
Started == Len(proofs) + Len(pending)

\* Mutant: the nonce is advanced and saved before the prover has validated.
GenerateProofStartCommitsFirst(limit) ==
    /\ Len(pending) < limit
    /\ Started < MaxProofs
    /\ \E minScore \in HookMinScores, poolId \in HookPoolIds :
        IF state.creditScore = NullObject \/ state.commitment = NullObject
        THEN UNCHANGED <<state, pending, store>>
        ELSE IF state.creditScore.score < minScore
        THEN UNCHANGED <<state, pending, store>>
        ELSE LET inputs == [score |-> state.creditScore.score,
                            salt |-> state.commitment.salt,
                            commitment |-> state.commitment.hash,
                            minScore |-> minScore,
                            poolId |-> poolId,
                            nonce |-> state.commitment.nonce]
                 proof == generateZKProof(inputs)
                 advanced == [state.commitment EXCEPT !.nonce = state.commitment.nonce + 1]
             IN  IF proof.kind = "throw"
                 THEN /\ state' = [state EXCEPT !.isLoading = FALSE, !.error = proof.msg,
                                                !.commitment = advanced]
                      /\ store' = saveCommitmentToStorage(store, publicKey, advanced)
                      /\ UNCHANGED pending
                 ELSE /\ state' = [state EXCEPT !.isLoading = TRUE, !.error = Null]
                      /\ pending' = Append(pending,
                            [caller |-> "hook", inputs |-> inputs, proof |-> proof.value,
                             captured |-> state.commitment, alone |-> pending = <<>>])
                      /\ UNCHANGED store
    /\ UNCHANGED <<req, res, proofs, borrow, n0>>

\* generateProof up to `await generateZKProof(...)`: the guards, then the
\* prover's own validation, which throws before the prover's timer is set.
GenerateProofStart(limit) ==
    /\ Len(pending) < limit
    /\ Started < MaxProofs
    /\ \E minScore \in HookMinScores, poolId \in HookPoolIds :
        IF state.creditScore = NullObject \/ state.commitment = NullObject
        THEN UNCHANGED <<state, pending>>
        ELSE IF state.creditScore.score < minScore
        THEN UNCHANGED <<state, pending>>
        ELSE LET inputs == [score |-> state.creditScore.score,
                            salt |-> state.commitment.salt,
                            commitment |-> state.commitment.hash,
                            minScore |-> minScore,
                            poolId |-> poolId,
                            nonce |-> state.commitment.nonce]
                 proof == generateZKProof(inputs)
             IN  IF proof.kind = "throw"
                 THEN /\ state' = [state EXCEPT !.isLoading = FALSE, !.error = proof.msg]
                      /\ UNCHANGED pending
                 ELSE /\ state' = [state EXCEPT !.isLoading = TRUE, !.error = Null]
                      /\ pending' = Append(pending,
                            [caller |-> "hook", inputs |-> inputs, proof |-> proof.value,
                             captured |-> state.commitment, alone |-> pending = <<>>])
    /\ UNCHANGED <<req, res, store, proofs, borrow, n0>>

\* Mutant: the public inputs carry the nonce the record has after the update.
hookGeneratedProofNextNonce(call, first, second) ==
    [proof |-> call.proof,
     publicInputs |-> <<call.captured.hash,
                        numToString(call.inputs.minScore),
                        call.inputs.poolId,
                        numToString(call.captured.nonce + 1)>>,
     commitment |-> call.captured.hash,
     timestamp |-> first,
     expiresAt |-> second + 3600 * 1000]

\* The GeneratedProof the hook returns; `first` and `second` are its two
\* readings of Date.now().
hookGeneratedProof(call, first, second) ==
    [proof |-> call.proof,
     publicInputs |-> <<call.captured.hash,
                        numToString(call.inputs.minScore),
                        call.inputs.poolId,
                        numToString(call.captured.nonce)>>,
     commitment |-> call.captured.hash,
     timestamp |-> first,
     expiresAt |-> second + 3600 * 1000]

\* Mutant: each proof uses up one of the record's days.
updatedCommitmentCountsDown(commitment) ==
    [commitment EXCEPT !.nonce = commitment.nonce + 1,
                       !.expiresIn = commitment.expiresIn - 1]

updatedCommitmentSameNonce(commitment) == commitment

\* The nonce update of generateProof.
updatedCommitment(commitment) == [commitment EXCEPT !.nonce = commitment.nonce + 1]

\* Mutant: the updated record is saved but never put into the hook state.
GenerateProofCompleteSavesOnly ==
    /\ pending # <<>>
    /\ Head(pending).caller = "hook"
    /\ \E first \in LifecycleClock, elapsed \in {0, Tick} :
        /\ LET call == Head(pending)
               updated == updatedCommitment(call.captured)
           IN  /\ store' = saveCommitmentToStorage(store, publicKey, updated)
               /\ state' = [state EXCEPT !.isLoading = FALSE]
               /\ proofs' = Append(proofs,
                    [caller |-> "hook", inputs |-> call.inputs, alone |-> call.alone,
                     result |-> hookGeneratedProof(call, first, first + elapsed)])
    /\ pending' = Tail(pending)
    /\ UNCHANGED <<req, res, borrow, n0>>

\* generateProof after the prover returned: nonce update, save, setState, return.
GenerateProofComplete ==
    /\ pending # <<>>
    /\ Head(pending).caller = "hook"
    /\ \E first \in LifecycleClock, elapsed \in {0, Tick} :
        /\ LET call == Head(pending)
               updated == updatedCommitment(call.captured)
           IN  /\ store' = saveCommitmentToStorage(store, publicKey, updated)
               /\ state' = [state EXCEPT !.commitment = updated, !.isLoading = FALSE]
               /\ proofs' = Append(proofs,
                    [caller |-> "hook", inputs |-> call.inputs, alone |-> call.alone,
                     result |-> hookGeneratedProof(call, first, first + elapsed)])
    /\ pending' = Tail(pending)
    /\ UNCHANGED <<req, res, borrow, n0>>

\* Borrow page, step 1: a pool card is clicked.
SelectPool ==
    /\ borrow.currentStep = 1
    /\ \E pool \in OfferedPools : borrow' = [borrow EXCEPT !.selectedPool = pool.id]
    /\ UNCHANGED <<req, res, store, state, pending, proofs, n0>>

Min(a, b) == IF a < b THEN a ELSE b

Max(a, b) == IF a > b THEN a ELSE b

\* Continue on steps 1 and 2 (an amount is taken as entered on step 2).
NextStep ==
    /\ borrow.currentStep \in {1, 2}
    /\ borrow.currentStep = 1 => borrow.selectedPool # Null
    /\ borrow' = [borrow EXCEPT !.currentStep = Min(borrow.currentStep + 1, 5)]
    /\ UNCHANGED <<req, res, store, state, pending, proofs, n0>>

\* Back on steps 2, 3 and 4.
PrevStep ==
    /\ borrow.currentStep \in {2, 3, 4}
    /\ borrow' = [borrow EXCEPT !.currentStep = Max(borrow.currentStep - 1, 1)]
    /\ UNCHANGED <<req, res, store, state, pending, proofs, n0>>

poolMinScore(selectedPool) ==
    IF \E p \in LENDING_POOLS : p.id = selectedPool
    THEN (CHOOSE p \in LENDING_POOLS : p.id = selectedPool).minScore
    ELSE 650

\* handleGenerateProof up to `await generateZKProof(...)`.
HandleGenerateProofStart(limit) ==
    /\ borrow.currentStep = 3
    /\ ~borrow.isGeneratingProof
    /\ state.commitment # NullObject
    /\ Len(pending) < limit
    /\ Started < MaxProofs
    /\ IF state.creditScore = NullObject
       THEN /\ borrow' = [borrow EXCEPT !.error = "Missing credit score or commitment"]
            /\ UNCHANGED pending
       ELSE LET inputs == [score |-> state.creditScore.score,
                           salt |-> state.commitment.salt,
                           commitment |-> state.commitment.hash,
                           minScore |-> poolMinScore(borrow.selectedPool),
                           poolId |-> borrow.selectedPool,
                           nonce |-> state.commitment.nonce]
                proof == generateZKProof(inputs)
            IN  IF proof.kind = "throw"
                THEN /\ borrow' = [borrow EXCEPT !.isGeneratingProof = FALSE,
                                                 !.error = proof.msg]
                     /\ UNCHANGED pending
                ELSE /\ borrow' = [borrow EXCEPT !.isGeneratingProof = TRUE,
                                                 !.error = Null]
                     /\ pending' = Append(pending,
                            [caller |-> "borrow", inputs |-> inputs, proof |-> proof.value,
                             captured |-> state.commitment, alone |-> pending = <<>>])
    /\ UNCHANGED <<req, res, store, state, proofs, n0>>

\* handleGenerateProof after the prover returned: the proof is kept, the page
\* moves on; the commitment record is not touched.
HandleGenerateProofComplete ==
    /\ pending # <<>>
    /\ Head(pending).caller = "borrow"
    /\ borrow' = [borrow EXCEPT !.zkProof = Head(pending).proof,
                                !.currentStep = Min(borrow.currentStep + 1, 5),
                                !.isGeneratingProof = FALSE]
    /\ proofs' = Append(proofs,
            [caller |-> "borrow", inputs |-> Head(pending).inputs,
             alone |-> Head(pending).alone, result |-> Head(pending).proof])
    /\ pending' = Tail(pending)
    /\ UNCHANGED <<req, res, store, state, n0>>

\* handleSubmitLoan on step 4, with its simulated transaction.
HandleSubmitLoan ==
    /\ borrow.currentStep = 4
    /\ IF borrow.zkProof = NullObject \/ borrow.selectedPool = Null
       THEN borrow' = [borrow EXCEPT !.error = "Missing required data"]
       ELSE borrow' = [borrow EXCEPT !.error = Null,
                                     !.currentStep = Min(borrow.currentStep + 1, 5)]
    /\ UNCHANGED <<req, res, store, state, pending, proofs, n0>>

\* "Borrow again" on step 5.
StartOver ==
    /\ borrow.currentStep = 5
    /\ borrow' = [borrow EXCEPT !.currentStep = 1, !.selectedPool = Null, !.zkProof = NullObject]
    /\ UNCHANGED <<req, res, store, state, pending, proofs, n0>>

Lifecycle(limit) ==
    \/ CalculateScore(limit)
    \/ LoadOnConnect
    \/ RegisterCommitment(limit)
    \/ GenerateProofStart(limit)
    \/ GenerateProofComplete
    \/ SelectPool
    \/ NextStep
    \/ PrevStep
    \/ HandleGenerateProofStart(limit)
    \/ HandleGenerateProofComplete
    \/ HandleSubmitLoan
    \/ StartOver

\* Calls may overlap.
Next == Lifecycle(MaxInFlight)

Spec == InitLifecycle /\ [][Next]_vars

\* Each call returns before the next one starts.
NextSeq == Lifecycle(1)

SpecSeq == InitLifecycle /\ [][NextSeq]_vars

(***************************************************************************)
(* Claims about the nonce of a commitment record                           *)
(***************************************************************************)
\* The record this wallet has in localStorage.
Stored ==
    IF store[publicKey] = NullObject THEN NullObject ELSE JSONparse(store[publicKey])

\* The generations that returned a proof made from the record with this hash.
ReturnedFor(hash, callers) ==
    SelectSeq(proofs, LAMBDA p : p.caller \in callers /\ p.inputs.commitment = hash)

NonceAdvancedPast(p) ==
    /\ Stored # NullObject
    /\ Stored.nonce = p.inputs.nonce + 1
    /\ state.commitment # NullObject
    /\ state.commitment.nonce = p.inputs.nonce + 1

SequentialNonces ==
    Stored # NullObject =>
        LET returned == ReturnedFor(Stored.hash, {"hook"})
        IN  /\ \A i \in 1..Len(returned) :
                returned[i].result.publicInputs[4] = numToString(n0 + i - 1)
            /\ Stored.nonce = n0 + Len(returned)
            /\ Stored.nonce >= 1

\* C2, as a step property: the stored nonce of a record never decreases.
StoredNonceStep ==
    (Stored # NullObject /\ Stored' # NullObject /\ Stored'.hash = Stored.hash)
        => Stored'.nonce >= Stored.nonce

\* C2: under sequential calls of the hook's generateProof on one record that
\* started at nonce n0, the i-th successful call returns a proof carrying
\* nonce n0+i-1 and leaves the stored nonce at n0+i; the stored nonce never
\* decreases and is always at least 1.
NonceMonotonicity == []SequentialNonces /\ [][StoredNonceStep]_vars

\* The hook has returned two proofs from one record.
NonceMonotonicityWitness ==
    /\ Stored # NullObject
    /\ Len(ReturnedFor(Stored.hash, {"hook"})) = 2
    /\ Stored.nonce = n0 + 2

\* The Borrow page has returned a proof and the record still has the nonce
\* that proof used.
BorrowPageReusesNonce ==
    /\ pending = <<>>
    /\ proofs # <<>>
    /\ proofs[Len(proofs)].caller = "borrow"
    /\ Stored # NullObject
    /\ Stored.hash = proofs[Len(proofs)].inputs.commitment
    /\ Stored.nonce = proofs[Len(proofs)].inputs.nonce

(***************************************************************************)
(* Properties of the score engine                                          *)
(***************************************************************************)
ComponentNames ==
    <<"paymentHistory", "creditUtilization", "accountHistory", "protocolDiversity",
      "recentActivity">>

\* The sum of the weighted values of the five components of a breakdown.
SumWeighted(breakdown) ==
    FAdd(FAdd(FAdd(FAdd(breakdown[ComponentNames[1]].weighted,
                        breakdown[ComponentNames[2]].weighted),
                   breakdown[ComponentNames[3]].weighted),
              breakdown[ComponentNames[4]].weighted),
         breakdown[ComponentNames[5]].weighted)

\* round(clamp(300 + sum/100 * 550, 300, 850))
RoundClamp(sum) ==
    LET raw == FAdd(Whole(300), FMul(FMul(sum, Frac(1, 100)), Whole(550)))
    IN  MathRound(IF FLess(raw, Whole(300)) THEN Whole(300)
                  ELSE IF FLess(Whole(850), raw) THEN Whole(850)
                  ELSE raw)

\* C11: for every metrics input the score of the result is
\* round(clamp(300 + (sum of the weighted values of the five components of the
\* same result's breakdown)/100 * 550, 300, 850)).
ScoreFormula ==
    Done({"calculateCreditScore"}) =>
        /\ DOMAIN res.value.breakdown = {ComponentNames[i] : i \in 1..5}
        /\ res.value.score = RoundClamp(SumWeighted(res.value.breakdown))

\* A call returned a score whose raw value had a fraction of a half or more.
ScoreFormulaWitness ==
    /\ Done({"calculateCreditScore"})
    /\ LET sum == SumWeighted(res.value.breakdown)
           raw == FAdd(Whole(300), FMul(FMul(sum, Frac(1, 100)), Whole(550)))
       IN  /\ raw.d > 1
           /\ 2 * (raw.n % raw.d) >= raw.d
           /\ res.value.score = raw.n \div raw.d + 1

\* C12: a call of calculateCreditScore on the same metrics at any other time
\* returns the same result in every field.
ScoreDeterminism ==
    Done({"calculateCreditScore"}) =>
        \A t \in Clock : calculateCreditScore(req.metrics, t) = res.value

\* C13: the five components carry the weights 35, 30, 15, 10, 10, which sum to
\* 100, and in each weighted = score * weight / 100.
WeightInvariant ==
    Done({"calculateCreditScore"}) =>
        LET b == res.value.breakdown
        IN  /\ b.paymentHistory.weight = 35
            /\ b.creditUtilization.weight = 30
            /\ b.accountHistory.weight = 15
            /\ b.protocolDiversity.weight = 10
            /\ b.recentActivity.weight = 10
            /\ b.paymentHistory.weight + b.creditUtilization.weight
                + b.accountHistory.weight + b.protocolDiversity.weight
                + b.recentActivity.weight = 100
            /\ \A i \in 1..5 :
                LET c == b[ComponentNames[i]]
                IN  c.weighted = Frac(c.score.n * c.weight, c.score.d * 100)

\* A call returned a payment component whose score is no whole number.
WeightInvariantWitness ==
    /\ Done({"calculateCreditScore"})
    /\ res.value.breakdown.paymentHistory.score.d > 1
    /\ res.value.breakdown.paymentHistory.weighted.n > 0

AllZero(metrics) ==
    /\ metrics.onTimePayments = 0
    /\ metrics.latePayments = 0
    /\ metrics.defaults = 0
    /\ metrics.totalBorrowed = 0
    /\ metrics.totalRepaid = 0
    /\ metrics.oldestActivityDays = 0
    /\ metrics.uniqueProtocols = {}
    /\ metrics.averageTransactionValue = 0
    /\ metrics.totalTransactions = 0

EmptyActivityScores ==
    LET b == res.value.breakdown
    IN  /\ b.paymentHistory.score = Whole(50)
        /\ b.creditUtilization.score = Whole(70)
        /\ b.accountHistory.score = Whole(20)
        /\ b.protocolDiversity.score = Whole(20)
        /\ b.recentActivity.score = Whole(20)
        /\ res.value.score = 550

\* C14 as stated: empty activity gives component scores 50, 70, 20, 20, 20,
\* score 550 and tier "Fair".
EmptyActivityAsStated ==
    (Done({"calculateCreditScore"}) /\ AllZero(req.metrics)) =>
        (EmptyActivityScores /\ res.value.tier = "Fair")

\* C14: empty activity gives component scores 50, 70, 20, 20, 20 and score
\* 550, which lies under the cutoff 580 of "Fair": the tier is "Poor".
EmptyActivity ==
    (Done({"calculateCreditScore"}) /\ AllZero(req.metrics)) =>
        (EmptyActivityScores /\ res.value.tier = "Poor")

\* calculateCreditScore returned for all-zero metrics.
EmptyActivityWitness ==
    /\ Done({"calculateCreditScore"})
    /\ AllZero(req.metrics)
    /\ res.value.score = 550

(***************************************************************************)
(* Expiry of a proof, and registration data                                *)
(***************************************************************************)
\* Mutant: a proof counts as expired at expiresAt already.
isProofExpiredInclusive(proof, now) == now >= proof.expiresAt

\* `now` is the value Date.now() returns.
isProofExpired(proof, now) == now > proof.expiresAt

\* Inputs generateZKProof accepts.
AcceptedProofInputs == {i \in ProofInputsSet : generateZKProof(i).kind = "return"}

\* A call of the hook's generateProof on the record of an earlier session.
EarlierCall ==
    LET inputs == [score |-> 771, salt |-> EarlierRecord.salt,
                   commitment |-> EarlierRecord.hash, minScore |-> 650,
                   poolId |-> "usdc-prime", nonce |-> EarlierRecord.nonce]
    IN  [caller |-> "hook", inputs |-> inputs, proof |-> generateZKProof(inputs).value,
         captured |-> EarlierRecord, alone |-> TRUE]

\* Proofs as generateCompleteProof and the hook's generateProof return them.
FreshProofs ==
    {generateCompleteProof(i, t).value : i \in AcceptedProofInputs, t \in Clock}
        \cup {hookGeneratedProof(EarlierCall, t, t + e) : t \in Clock, e \in {0, Tick}}

\* Milliseconds between the generation of a proof and the expiry check.
ExpiryDelays == {0, 1, 3599999, 3600000, 3600001, 3600002, 7200000}

InitExpiry ==
    /\ \E p \in FreshProofs, d \in ExpiryDelays :
            req = [op |-> "isProofExpired", proof |-> p, now |-> p.timestamp + d]
    /\ res = Pending
    /\ LifecycleIdle

CallIsProofExpired ==
    Call("isProofExpired", Return(isProofExpired(req.proof, req.now)))

\* Salts generateSalt() returns: lower-case hex of random bytes.
GeneratedSalts == {SaltA, SaltB}

InitCommitmentData ==
    /\ \E sc \in ScoreRange \cup FarScores, sa \in GeneratedSalts :
            req = [op |-> "createCommitmentData", score |-> sc, salt |-> sa]
    /\ res = Pending
    /\ LifecycleIdle

CallCreateCommitmentData ==
    Call("createCommitmentData", createCommitmentData(req.score, req.salt))

(***************************************************************************)
(* Persistence: one call of saveCommitmentToStorage or                     *)
(* loadCommitmentFromStorage on a given localStorage                       *)
(***************************************************************************)
\* Records that may have been saved: live ones, and ones with no days left.
StorageRecords ==
    {EarlierRecord,
     [hash |-> commitmentHash(650, SaltB), salt |-> SaltB, nonce |-> 1, expiresIn |-> 30],
     [hash |-> commitmentHash(650, SaltB), salt |-> SaltB, nonce |-> 7, expiresIn |-> 1],
     [hash |-> commitmentHash(650, SaltB), salt |-> SaltB, nonce |-> 3, expiresIn |-> 0],
     [hash |-> commitmentHash(300, SaltA), salt |-> SaltA, nonce |-> 1, expiresIn |-> -1]}

\* What localStorage may hold under one key: nothing, or a saved record.
StorageItems == {NullObject} \cup {JSONstringify(r) : r \in StorageRecords}

Stores == [Addresses -> StorageItems]

InitStorage ==
    /\ \/ \E st \in Stores, a \in Addresses, r \in StorageRecords :
            req = [op |-> "saveCommitmentToStorage", store0 |-> st, address |-> a,
                   commitment |-> r]
       \/ \E st \in Stores, a \in Addresses :
            req = [op |-> "loadCommitmentFromStorage", store0 |-> st, address |-> a]
    /\ res = Pending
    /\ LifecycleIdle

\* The result is the localStorage the call leaves.
CallSaveCommitmentToStorage ==
    Call("saveCommitmentToStorage",
         Return(saveCommitmentToStorage(req.store0, req.address, req.commitment)))

\* The result is the value returned and the localStorage the call leaves.
CallLoadCommitmentFromStorage ==
    Call("loadCommitmentFromStorage",
         Return([value |-> loadCommitmentFromStorage(req.store0, req.address),
                 store |-> storeAfterLoad(req.store0, req.address)]))

(***************************************************************************)
(* verifyProofStructure (zkProof.ts)                                       *)
(***************************************************************************)
\* A string handed to verifyProofStructure is written [hexOfJson |-> v] when
\* it is the hex of the UTF-8 of the JSON text of v, as serializeProofData
\* writes it, and [text |-> characters] when it is any other string.
\* JSON values: an object is a record of its fields, a digest string is a
\* generateProofElement value, EmptyString is "", NullObject is null.
EmptyString == [kind |-> "empty string"]

JSONNumber == [kind |-> "number"]

\* obj.field of JavaScript: undefined when the field is absent.
Undefined == [kind |-> "undefined"]

Field(obj, f) == IF f \in DOMAIN obj THEN obj[f] ELSE Undefined

\* The same for the two tag fields, whose values are strings: an absent tag
\* reads as a text no tag of the code equals.
Tag(obj, f) == IF f \in DOMAIN obj THEN obj[f] ELSE "undefined"

\* ToBoolean on the values above.
Truthy(v) == v \notin {Undefined, NullObject, EmptyString}

\* hexToBytes, TextDecoder.decode and JSON.parse, one after the other, throw:
\* on a text that is not hex, and on hex whose bytes are not a JSON text.
deserializeThrows(proof) == "text" \in DOMAIN proof

\* Reading a property of null throws a TypeError; of a number it is undefined.
propertyReadThrows(proofData) == proofData = NullObject

structureTest(proofData, circuits) ==
    /\ Truthy(Field(proofData, "pi_a"))
    /\ Truthy(Field(proofData, "pi_b"))
    /\ Truthy(Field(proofData, "pi_c"))
    /\ Tag(proofData, "protocol") = "noir"
    /\ Tag(proofData, "circuit") \in circuits

Circuits == {"prove_score_threshold", "prove_dti_ratio", "prove_payment_history",
             "prove_creditworthy"}

\* Mutant: any of the four circuit tags is accepted.
verifyProofStructureAnyCircuit(proof) ==
    IF deserializeThrows(proof) THEN Return(FALSE)
    ELSE IF propertyReadThrows(proof.hexOfJson) THEN Return(FALSE)
    ELSE Return(structureTest(proof.hexOfJson, Circuits))

\* try { ... return !!(...) } catch { return false }
verifyProofStructure(proof) ==
    IF deserializeThrows(proof) THEN Return(FALSE)
    ELSE IF propertyReadThrows(proof.hexOfJson) THEN Return(FALSE)
    ELSE Return(structureTest(proof.hexOfJson, {"prove_score_threshold"}))

\* The artifacts the four generators return.
ThresholdArtifacts == {generateZKProof(i).value : i \in AcceptedProofInputs}

DTIArtifacts ==
    {generateDTIProof(i).value :
        i \in {j \in DTIProofInputsSet : generateDTIProof(j).kind = "return"}}

PaymentHistoryArtifacts ==
    {generatePaymentHistoryProof(i).value :
        i \in {j \in PaymentHistoryProofInputsSet :
                    generatePaymentHistoryProof(j).kind = "return"}}

CreditworthyArtifacts ==
    {generateCreditworthyProof(i, 1999).value.proof :
        i \in {j \in CreditworthyProofInputsSet :
                    generateCreditworthyProof(j, 1999).kind = "return"}}

\* Strings that are no hex (a character, the length) or hex of bytes that are
\* no JSON text.
NotJSONTexts == {[text |-> <<"z", "z">>], [text |-> <<"a">>], [text |-> <<"a", "1">>],
                 [text |-> <<>>]}

\* JSON texts of objects of the artifact's shape with fields empty, null,
\* absent or different, and of values that are no object.
ElementValues == {generateProofElement(771, SaltA, "a"), EmptyString, NullObject}

ReshapedArtifacts ==
    {[hexOfJson |-> [pi_a |-> a, pi_b |-> b, pi_c |-> c, protocol |-> p, circuit |-> t]] :
        a \in ElementValues, b \in ElementValues, c \in ElementValues,
        p \in {"noir", "groth16"}, t \in {"prove_score_threshold", "prove_dti_ratio"}}
    \cup {[hexOfJson |-> [pi_a |-> a, pi_b |-> a, protocol |-> "noir",
                           circuit |-> "prove_score_threshold"]] : a \in ElementValues}
    \cup {[hexOfJson |-> [pi_a |-> a, pi_b |-> a, pi_c |-> a, protocol |-> "noir"]] :
            a \in ElementValues}
    \cup {[hexOfJson |-> [pi_a |-> a, pi_b |-> a, pi_c |-> a,
                           circuit |-> "prove_score_threshold"]] : a \in ElementValues}
    \cup {[hexOfJson |-> NullObject], [hexOfJson |-> JSONNumber]}

StructureInputs ==
    ThresholdArtifacts \cup DTIArtifacts \cup PaymentHistoryArtifacts
        \cup CreditworthyArtifacts \cup NotJSONTexts \cup ReshapedArtifacts

InitStructure ==
    /\ \E proof \in StructureInputs : req = [op |-> "verifyProofStructure", proof |-> proof]
    /\ res = Pending
    /\ LifecycleIdle

CallVerifyProofStructure ==
    Call("verifyProofStructure", verifyProofStructure(req.proof))

(***************************************************************************)
(* The exports of zkProof.ts called directly, or the hook and the Borrow   *)
(* page run with one call in flight                                        *)
(***************************************************************************)
InitAll ==
    \/ InitZK
    \/ InitExpiry
    \/ InitCommitmentData
    \/ InitStorage
    \/ InitStructure
    \/ InitLifecycle

NextAll ==
    \/ NextZK
    \/ CallIsProofExpired
    \/ CallCreateCommitmentData
    \/ CallSaveCommitmentToStorage
    \/ CallLoadCommitmentFromStorage
    \/ CallVerifyProofStructure
    \/ (req.op = "none" /\ NextSeq)

SpecAll == InitAll /\ [][NextAll]_vars

(***************************************************************************)
(* Properties of expiry, validity window and registration                  *)
(***************************************************************************)
\* C15: isProofExpired is true iff the current time is strictly greater than
\* expiresAt; for a fresh proof it is false at generation time and at every
\* time up to and including expiresAt, true at every later time, and once
\* true it stays true as the clock advances.
ProofExpiry ==
    Done({"isProofExpired"}) =>
        /\ res.value = (req.now > req.proof.expiresAt)
        /\ req.now = req.proof.timestamp => res.value = FALSE
        /\ req.now <= req.proof.expiresAt => res.value = FALSE
        /\ req.now > req.proof.expiresAt => res.value = TRUE
        /\ \A d \in ExpiryDelays :
            res.value = TRUE => isProofExpired(req.proof, req.now + d) = TRUE

\* A fresh proof was checked at the very instant expiresAt and is not expired.
ProofExpiryWitness ==
    /\ Done({"isProofExpired"})
    /\ req.now = req.proof.expiresAt
    /\ req.now > req.proof.timestamp
    /\ res.value = FALSE

\* C16: every GeneratedProof of a single score-threshold predicate, from
\* generateCompleteProof or from the hook's generateProof, has
\* expiresAt = timestamp + 3,600,000 ms.
ValidityWindow ==
    /\ (Done({"generateCompleteProof"}) /\ res.kind = "return") =>
            res.value.expiresAt = res.value.timestamp + 3600000
    /\ \A i \in 1..Len(proofs) :
            proofs[i].caller = "hook" =>
                proofs[i].result.expiresAt = proofs[i].result.timestamp + 3600000

\* C17: createCommitmentData(score) for a score in [300,850] returns a record
\* with nonce 1, expiresIn 30 and a hash that verifyCommitment accepts for
\* (score, record.salt); for a score outside [300,850] it throws.
RegistrationData ==
    Done({"createCommitmentData"}) =>
        /\ InRange(req.score) =>
            /\ res.kind = "return"
            /\ res.value.nonce = 1
            /\ res.value.expiresIn = 30
            /\ verifyCommitment(req.score, res.value.salt, res.value.hash) = Return(TRUE)
        /\ ~InRange(req.score) => res.kind = "throw"

\* createCommitmentData(850) returned a record.
RegistrationDataWitness ==
    /\ Done({"createCommitmentData"})
    /\ req.score = 850
    /\ res.kind = "return"
    /\ res.value.nonce = 1

(***************************************************************************)
(* Frame of a rejected proof generation                                    *)
(***************************************************************************)
\* A step of the hook's generateProof that rejects: no call reaches the prover.
RejectedGenerationStep ==
    (GenerateProofStart(1) /\ pending' = pending) =>
        /\ store' = store
        /\ state'.commitment = state.commitment
        /\ state' = [state EXCEPT !.isLoading = state'.isLoading, !.error = state'.error]
        /\ proofs' = proofs

\* C18: when the hook's generateProof rejects (missing score or commitment,
\* score below minScore, or generateZKProof throwing), the persisted record and
\* the hook's commitment are unchanged; only isLoading and error may change.
FailedGenerationFrame == [][RejectedGenerationStep]_vars

\* generateZKProof threw inside generateProof: the error is in the hook state
\* and the record, stored and in the hook, still has the nonce it started with.
FailedGenerationFrameWitness ==
    /\ state.error = "Commitment verification failed - score/salt mismatch"
    /\ state.commitment # NullObject
    /\ state.commitment = Stored
    /\ state.commitment.nonce = n0
    /\ proofs = <<>>

(***************************************************************************)
(* Properties of persistence                                               *)
(***************************************************************************)
\* What a caller is to get back for a record that was saved.
ActiveOrNull(record) == IF record.expiresIn > 0 THEN record ELSE NullObject

\* C19: saveCommitmentToStorage(address, r) replaces the record of that address
\* and leaves every other address as it was; loadCommitmentFromStorage(address)
\* returns the last saved record when it has expiresIn > 0, and null both when
\* there is no record and when the record has expiresIn <= 0, which it removes.
StorageContract ==
    /\ Done({"saveCommitmentToStorage"}) =>
        /\ \A a \in Addresses \ {req.address} : res.value[a] = req.store0[a]
        /\ loadCommitmentFromStorage(res.value, req.address) = ActiveOrNull(req.commitment)
    /\ Done({"loadCommitmentFromStorage"}) =>
        /\ \A a \in Addresses \ {req.address} : res.value.store[a] = req.store0[a]
        /\ req.store0[req.address] = NullObject =>
            /\ res.value.value = NullObject
            /\ res.value.store = req.store0
        /\ \A r \in StorageRecords :
            req.store0[req.address]
                    = saveCommitmentToStorage(req.store0, req.address, r)[req.address] =>
                /\ res.value.value = ActiveOrNull(r)
                /\ r.expiresIn > 0 => res.value.store = req.store0
                /\ r.expiresIn <= 0 => res.value.store[req.address] = NullObject

\* A record was saved over another address's neighbour and over an earlier
\* record of its own address.
StorageContractWitness ==
    /\ Done({"saveCommitmentToStorage"})
    /\ req.store0[req.address] # NullObject
    /\ req.store0[req.address] # res.value[req.address]
    /\ \E a \in Addresses \ {req.address} :
        /\ req.store0[a] # NullObject
        /\ req.store0[a] # res.value[req.address]
    /\ loadCommitmentFromStorage(res.value, req.address) = req.commitment

(***************************************************************************)
(* Properties of the public inputs                                         *)
(***************************************************************************)
\* The decimal numerals of the numbers that occur as public inputs.
Decimal(n) ==
    CASE n = 1 -> "1" [] n = 2 -> "2" [] n = 3 -> "3" [] n = 4 -> "4" [] n = 5 -> "5"
      [] n = 300 -> "300" [] n = 650 -> "650" [] n = 800 -> "800" [] n = 900 -> "900"
      [] n = 4000 -> "4000" [] n = 9000 -> "9000" [] n = 1700000 -> "1700000"
      [] OTHER -> "unlisted"

\* C20: publicInputs is, in this order, for generateCompleteProof
\* [commitment, minScore, poolId, nonce, floor(timestamp/1000)], for
\* generateCreditworthyProof [commitment, minScore, maxDTI, minPaymentRate,
\* poolId, nonce], for the hook's generateProof [hash, minScore, poolId, nonce],
\* numbers as decimal strings; the first element is the proof's commitment
\* field and the nonce is the one supplied for that generation.
PublicInputsOrder ==
    /\ (Done({"generateCompleteProof"}) /\ res.kind = "return") =>
        /\ res.value.publicInputs =
                <<req.inputs.commitment, Decimal(req.inputs.minScore), req.inputs.poolId,
                  Decimal(req.inputs.nonce), Decimal(res.value.timestamp \div 1000)>>
        /\ res.value.publicInputs[1] = res.value.commitment
    /\ (Done({"generateCreditworthyProof"}) /\ res.kind = "return") =>
        /\ res.value.publicInputs =
                <<req.inputs.commitment, Decimal(req.inputs.minScore),
                  Decimal(req.inputs.maxDTI), Decimal(req.inputs.minPaymentRate),
                  req.inputs.poolId, Decimal(req.inputs.nonce)>>
        /\ res.value.publicInputs[1] = res.value.commitment
    /\ \A i \in 1..Len(proofs) :
        proofs[i].caller = "hook" =>
            /\ proofs[i].result.publicInputs =
                    <<proofs[i].inputs.commitment, Decimal(proofs[i].inputs.minScore),
                      proofs[i].inputs.poolId, Decimal(proofs[i].inputs.nonce)>>
            /\ proofs[i].result.publicInputs[1] = proofs[i].result.commitment

\* The hook returned a proof made with nonce 2 and the record has moved to 3.
PublicInputsOrderWitness ==
    /\ Len(proofs) = 1
    /\ proofs[1].caller = "hook"
    /\ proofs[1].inputs.nonce = 2
    /\ proofs[1].result.publicInputs[4] = "2"
    /\ Stored # NullObject
    /\ Stored.nonce = 3

(***************************************************************************)
(* Overlapping calls of generateProof                                      *)
(***************************************************************************)
\* The operations of usePrivateScore alone, its calls free to overlap.
NextHook ==
    \/ CalculateScore(MaxInFlight)
    \/ LoadOnConnect
    \/ RegisterCommitment(MaxInFlight)
    \/ GenerateProofStart(MaxInFlight)
    \/ GenerateProofComplete

SpecHook == InitLifecycle /\ [][NextHook]_vars

\* A generateProof call of the hook awaits its prover on the stored record.
AwaitingOn(hash) ==
    \E i \in 1..Len(pending) :
        pending[i].caller = "hook" /\ pending[i].inputs.commitment = hash

\* C21: for any interleaving of the hook's generateProof calls on one record,
\* overlapping ones included, no two returned proofs carry the same nonce,
\* and once no call is awaiting, the stored nonce is the nonce of the first
\* returned proof plus the number of returned proofs.
DistinctNoncesAndCount(returned) ==
    /\ \A i, j \in 1..Len(returned) :
        i # j => returned[i].result.publicInputs[4] # returned[j].result.publicInputs[4]
    /\ (returned # <<>> /\ ~AwaitingOn(Stored.hash)) =>
            Stored.nonce = returned[1].inputs.nonce + Len(returned)

Serialized(returned) == \A i \in 1..Len(returned) : returned[i].alone

InvalidScoreRangeError == Throw("Invalid score range")

\* C22: generateZKProof rejects a score outside [300,850] with the
\* "Invalid score range" error.
InvalidScoreRangeReported ==
    (Done({"generateZKProof"}) /\ ~InRange(req.inputs.score)) =>
        res = InvalidScoreRangeError

\* What the code does instead: no call ends with the range error, since a
\* score outside the range never passes the commitment check before it.
InvalidScoreRangeNeverReported ==
    Done({"generateZKProof", "generateCompleteProof"}) => res # InvalidScoreRangeError

(***************************************************************************)
(* The standalone predicate proofs and zero denominators                   *)
(***************************************************************************)
\* C23: generateDTIProof returns an artifact only if monthlyIncome > 0 and
\* monthlyDebt*10000 <= maxDTI*monthlyIncome; generatePaymentHistoryProof
\* returns one only if totalPayments > 0, onTimePayments*10000 >=
\* minPaymentRate*totalPayments and totalPayments >= minPaymentCount.
PredicateProofsOnlyWhenMet ==
    /\ (Done({"generateDTIProof"}) /\ res.kind = "return") =>
            /\ req.inputs.monthlyIncome > 0
            /\ req.inputs.monthlyDebt * 10000 <= req.inputs.maxDTI * req.inputs.monthlyIncome
    /\ (Done({"generatePaymentHistoryProof"}) /\ res.kind = "return") =>
            /\ req.inputs.totalPayments > 0
            /\ req.inputs.onTimePayments * 10000
                    >= req.inputs.minPaymentRate * req.inputs.totalPayments
            /\ req.inputs.totalPayments >= req.inputs.minPaymentCount

\* The same with nonzero denominators only, where the code does satisfy it.
PredicateProofsNonzeroDenominators ==
    /\ (Done({"generateDTIProof"}) /\ res.kind = "return"
            /\ req.inputs.monthlyIncome > 0) =>
            req.inputs.monthlyDebt * 10000 <= req.inputs.maxDTI * req.inputs.monthlyIncome
    /\ (Done({"generatePaymentHistoryProof"}) /\ res.kind = "return"
            /\ req.inputs.totalPayments > 0) =>
            /\ req.inputs.onTimePayments * 10000
                    >= req.inputs.minPaymentRate * req.inputs.totalPayments
            /\ req.inputs.totalPayments >= req.inputs.minPaymentCount

(***************************************************************************)
(* The structural check of an artifact                                     *)
(***************************************************************************)
\* The artifact is the serialization of an object with non-empty pi_a, pi_b
\* and pi_c, protocol "noir" and circuit "prove_score_threshold".
ThresholdShaped(proof) ==
    /\ "hexOfJson" \in DOMAIN proof
    /\ {"pi_a", "pi_b", "pi_c", "protocol", "circuit"} \subseteq DOMAIN proof.hexOfJson
    /\ \A f \in {"pi_a", "pi_b", "pi_c"} :
            proof.hexOfJson[f] \notin {NullObject, EmptyString}
    /\ proof.hexOfJson.protocol = "noir"
    /\ proof.hexOfJson.circuit = "prove_score_threshold"

\* C24: verifyProofStructure never throws and returns true exactly when the
\* artifact deserializes to an object with non-empty pi_a, pi_b, pi_c,
\* protocol "noir" and circuit "prove_score_threshold": true for every
\* artifact generateZKProof returns, false for malformed input and for the
\* artifacts of the DTI, payment-history and creditworthy generators.
StructureCheck ==
    Done({"verifyProofStructure"}) =>
        /\ res.kind = "return"
        /\ res.value = ThresholdShaped(req.proof)
        /\ req.proof \in ThresholdArtifacts => res.value = TRUE
        /\ req.proof \in DTIArtifacts \cup PaymentHistoryArtifacts
                            \cup CreditworthyArtifacts \cup NotJSONTexts
                => res.value = FALSE

\* A well-formed artifact of the creditworthy generator was rejected.
StructureCheckWitness ==
    /\ Done({"verifyProofStructure"})
    /\ req.proof \in CreditworthyArtifacts
    /\ Truthy(Field(req.proof.hexOfJson, "pi_a"))
    /\ req.proof.hexOfJson.protocol = "noir"
    /\ res = Return(FALSE)

(***************************************************************************)
(* calculateCreditScore, one component's metrics varied at a time          *)
(***************************************************************************)
MaxOnTime == 20

MaxLate == 4

MaxDefaults == 3

MaxBorrowed == 20

MaxDays == 400

MaxTransactions == 45

\* Metrics of an account in use; every variation below starts from them.
BandBase ==
    [onTimePayments |-> 9, latePayments |-> 1, defaults |-> 0,
     totalBorrowed |-> 10, totalRepaid |-> 6, oldestActivityDays |-> 120,
     uniqueProtocols |-> {"kamino", "marginfi"},
     averageTransactionValue |-> 200, totalTransactions |-> 12,
     utilizationHistory |-> <<>>]

PaymentVariants ==
    {[BandBase EXCEPT !.onTimePayments = o, !.latePayments = l, !.defaults = d] :
        o \in 0..MaxOnTime, l \in 0..MaxLate, d \in 0..MaxDefaults}

\* Repayments may exceed what was borrowed.
UtilizationVariants ==
    {[BandBase EXCEPT !.totalBorrowed = b, !.totalRepaid = r] :
        b \in 0..MaxBorrowed, r \in 0..(MaxBorrowed + 2)}

HistoryVariants ==
    {[BandBase EXCEPT !.oldestActivityDays = days] : days \in 0..MaxDays}

DiversityVariants ==
    {[BandBase EXCEPT !.uniqueProtocols = {ProtocolNames[i] : i \in 1..k}] :
        k \in 0..Len(ProtocolNames)}

ActivityVariants ==
    {[BandBase EXCEPT !.totalTransactions = tx, !.oldestActivityDays = days,
                      !.averageTransactionValue = avg] :
        tx \in 0..MaxTransactions, days \in {0, 15, 30, 45, 60, 400},
        avg \in {0, 50, 999, 1000, 2000}}

BandMetrics ==
    PaymentVariants \cup UtilizationVariants \cup HistoryVariants
        \cup DiversityVariants \cup ActivityVariants

InitBands ==
    /\ \E m \in BandMetrics :
            req = [op |-> "calculateCreditScore", metrics |-> m, now |-> 1999]
    /\ res = Pending
    /\ LifecycleIdle

SpecBands == InitBands /\ [][NextScore]_vars

(***************************************************************************)
(* The five components                                                     *)
(***************************************************************************)
\* The rating of a payment score n/d against the limits 90, 75, 60, 40.
PaymentRating(n, d) ==
    IF n >= 90 * d THEN "Excellent"
    ELSE IF n >= 75 * d THEN "Very Good"
    ELSE IF n >= 60 * d THEN "Good"
    ELSE IF n >= 40 * d THEN "Fair"
    ELSE "Poor"

UtilizationBand(borrowed, repaid) ==
    IF borrowed = 0 THEN 70
    ELSE LET debt == IF borrowed - repaid > 0 THEN borrowed - repaid ELSE 0
         IN  IF 10 * debt <= 1 * borrowed THEN 95
             ELSE IF 10 * debt <= 3 * borrowed THEN 90
             ELSE IF 10 * debt <= 5 * borrowed THEN 75
             ELSE IF 10 * debt <= 7 * borrowed THEN 50
             ELSE IF 10 * debt <= 9 * borrowed THEN 30
             ELSE 10

DaysBand(days) ==
    IF days = 0 THEN 20
    ELSE IF days < 30 THEN 30
    ELSE IF days < 90 THEN 50
    ELSE IF days < 180 THEN 65
    ELSE IF days < 365 THEN 80
    ELSE 95

ProtocolBand(count) ==
    IF count = 0 THEN 20
    ELSE IF count = 1 THEN 40
    ELSE IF count <= 3 THEN 60
    ELSE IF count <= 5 THEN 80
    ELSE 95

Debt(metrics) ==
    IF metrics.totalBorrowed - metrics.totalRepaid > 0
    THEN metrics.totalBorrowed - metrics.totalRepaid ELSE 0

\* C26: the utilization, account-history and protocol-diversity components
\* have the scores of the stated breakpoints for every input, and each is
\* monotone in its metric: no higher for a higher utilization, no lower for
\* more days and for more protocols.
BandComponents ==
    Done({"calculateCreditScore"}) =>
        LET m == req.metrics
            b == res.value.breakdown
        IN  /\ b.creditUtilization.score
                    = Whole(UtilizationBand(m.totalBorrowed, m.totalRepaid))
            /\ b.accountHistory.score = Whole(DaysBand(m.oldestActivityDays))
            /\ b.protocolDiversity.score = Whole(ProtocolBand(Cardinality(m.uniqueProtocols)))
            /\ \A other \in UtilizationVariants :
                    (m.totalBorrowed > 0 /\ other.totalBorrowed > 0
                        /\ Debt(other) * m.totalBorrowed >= Debt(m) * other.totalBorrowed)
                    => FLeq(calculateUtilizationScore(other).score, b.creditUtilization.score)
            /\ \A other \in HistoryVariants :
                    other.oldestActivityDays >= m.oldestActivityDays
                    => FLeq(b.accountHistory.score, calculateAccountHistoryScore(other).score)
            /\ \A other \in DiversityVariants :
                    Cardinality(other.uniqueProtocols) >= Cardinality(m.uniqueProtocols)
                    => FLeq(b.protocolDiversity.score, calculateDiversityScore(other).score)

\* A utilization of exactly 0.1 scored 95.
BandComponentsWitness ==
    /\ Done({"calculateCreditScore"})
    /\ req.metrics.totalBorrowed = 20
    /\ req.metrics.totalRepaid = 18
    /\ res.value.breakdown.creditUtilization.score = Whole(95)
    /\ res.value.breakdown.accountHistory.score = Whole(65)
    /\ res.value.breakdown.protocolDiversity.score = Whole(60)

\* The base score of the transactions-per-month band, in whole numbers:
\* months = max(1, days/30), so tx/months >= k is tx >= k when days <= 30
\* and 30 * tx >= k * days otherwise.
ActivityBase(tx, days) ==
    LET AtLeast(k) == IF days <= 30 THEN tx >= k ELSE 30 * tx >= k * days
    IN  IF AtLeast(20) THEN 95
        ELSE IF AtLeast(10) THEN 85
        ELSE IF AtLeast(5) THEN 70
        ELSE IF AtLeast(2) THEN 50
        ELSE 30

RecommendationRules ==
    <<[component |-> "paymentHistory", below |-> 70,
       title |-> "Improve Payment History", priority |-> "high"],
      [component |-> "creditUtilization", below |-> 70,
       title |-> "Reduce Credit Utilization", priority |-> "high"],
      [component |-> "accountHistory", below |-> 50,
       title |-> "Build Account History", priority |-> "low"],
      [component |-> "protocolDiversity", below |-> 60,
       title |-> "Diversify Protocol Usage", priority |-> "medium"],
      [component |-> "recentActivity", below |-> 50,
       title |-> "Increase Activity", priority |-> "medium"]>>

PriorityRank(p) == CASE p = "high" -> 0 [] p = "medium" -> 1 [] p = "low" -> 2

\* Where the recommendation of rule k stands in the list; 0 when it is absent.
PositionOf(recs, k) ==
    IF \E i \in 1..Len(recs) : recs[i].title = RecommendationRules[k].title
    THEN CHOOSE i \in 1..Len(recs) : recs[i].title = RecommendationRules[k].title
    ELSE 0

\* C28: a recommendation is in the list exactly when the score of its
\* component is below its threshold (payment 70, utilization 70, history 50,
\* diversity 60, activity 50); the list is ordered high, medium, low, keeps
\* the scan order among equal priorities, and has at most one entry per
\* component and at most 5 entries.
RecommendationList ==
    Done({"calculateCreditScore"}) =>
        LET recs == res.value.recommendations
            b == res.value.breakdown
            rules == 1..Len(RecommendationRules)
        IN  /\ \A k \in rules :
                (PositionOf(recs, k) # 0)
                    <=> FLess(b[RecommendationRules[k].component].score,
                              Whole(RecommendationRules[k].below))
            /\ \A i \in 1..Len(recs) :
                \E k \in rules : /\ recs[i].title = RecommendationRules[k].title
                                  /\ recs[i].priority = RecommendationRules[k].priority
            /\ \A i, j \in 1..Len(recs) :
                i < j => /\ PriorityRank(recs[i].priority) <= PriorityRank(recs[j].priority)
                         /\ recs[i].title # recs[j].title
            /\ \A k, l \in rules :
                (k < l /\ RecommendationRules[k].priority = RecommendationRules[l].priority
                    /\ PositionOf(recs, k) # 0 /\ PositionOf(recs, l) # 0)
                => PositionOf(recs, k) < PositionOf(recs, l)
            /\ Len(recs) <= 5

\* All five components are below their thresholds: five recommendations, the
\* one for account history, scanned third, is last.
RecommendationListWitness ==
    /\ Done({"calculateCreditScore"})
    /\ Len(res.value.recommendations) = 5
    /\ res.value.recommendations[5].title = "Build Account History"
    /\ res.value.recommendations[3].title = "Diversify Protocol Usage"

(***************************************************************************)
(* HeliusClient: from the indexer's response to CreditMetrics              *)
(***************************************************************************)
MaxEvents == 3

\* String.prototype.toLowerCase on the transaction types of the samples.
toLowerCase(text) ==
    CASE text = "LOAN" -> "loan"
      [] text = "DEPOSIT" -> "deposit"
      [] text = "WITHDRAW" -> "withdraw"
      [] text = "SWAP" -> "swap"
      [] text = "TRANSFER" -> "transfer"
      [] text = "UNKNOWN" -> "unknown"
      [] OTHER -> text

\* parseFloat on the amount texts of the samples.
parseFloat(text) ==
    CASE text = "2000000000" -> 2000000000
      [] text = "1000000000" -> 1000000000
      [] OTHER -> 0

\* A transaction as the indexer returns it. `description` is the set of the
\* parser's keywords its lower-cased text contains ("unstake" contains
\* "stake"); a missing type or source is ""; amounts of native transfers are
\* lamports, here whole SOL, so that amount / 1e9 is a whole number.
Transaction(signature, type, description, source, timestamp, native, token, swap) ==
    [signature |-> signature, type |-> type, description |-> description,
     source |-> source, timestamp |-> timestamp,
     nativeTransfers |-> native, tokenTransfers |-> token, swap |-> swap]

TransactionSamples ==
    {Transaction("s1", "LOAN", {}, "kamino", 1000000, <<[amount |-> 2000000000]>>, <<>>,
                 NullObject),
     Transaction("s2", "UNKNOWN", {"repay"}, "kamino", 1613600, <<>>,
                 <<[tokenAmount |-> 5, mint |-> "USDC"]>>, NullObject),
     Transaction("s3", "UNKNOWN", {"borrow", "repay"}, "marginfi", 1699999,
                 <<[amount |-> 1000000000]>>, <<>>, NullObject),
     Transaction("s4", "DEPOSIT", {}, "", 1527200, <<>>, <<>>, NullObject),
     Transaction("s5", "UNKNOWN", {}, "jupiter", 1700000, <<>>, <<>>,
                 [nativeInput |-> [amount |-> "2000000000"], tokenInputs |-> <<>>]),
     Transaction("s9", "SWAP", {}, "orca", 1700000, <<>>, <<>>,
                 [tokenInputs |-> <<[rawTokenAmount |->
                                        [tokenAmount |-> "1000000000", decimals |-> 6]]>>]),
     Transaction("s6", "TRANSFER", {}, "system", 500000, <<[amount |-> 1000000000]>>, <<>>,
                 NullObject),
     Transaction("s7", "UNKNOWN", {"stake", "unstake"}, "marinade", 1700000, <<>>, <<>>,
                 NullObject),
     Transaction("s8", "LOAN", {}, "solend", 1700000, <<>>, <<>>, NullObject)}

RECURSIVE SeqsUpTo(_, _)
SeqsUpTo(S, n) ==
    IF n = 0 THEN {<<>>}
    ELSE LET shorter == SeqsUpTo(S, n - 1)
         IN  shorter \cup {Append(q, x) : q \in shorter, x \in S}

\* What fetch and response.json() may do.
Responses ==
    {[kind |-> "fetch throws"], [kind |-> "not ok"], [kind |-> "body is no JSON"]}
        \cup {[kind |-> "ok", body |-> txs] : txs \in SeqsUpTo(TransactionSamples, MaxEvents)}

\* Mutant: no try/catch around fetch.
getEnhancedTransactionsNoCatch(apiKey, response) ==
    IF apiKey = "" THEN Return(<<>>)
    ELSE IF response.kind = "fetch throws" THEN Throw("fetch failed")
    ELSE IF response.kind = "not ok" THEN Throw("Helius API error")
    ELSE IF response.kind = "body is no JSON" THEN Throw("Unexpected token")
    ELSE Return(response.body)

getEnhancedTransactions(apiKey, response) ==
    IF apiKey = "" THEN Return(<<>>)
    ELSE IF response.kind = "fetch throws" THEN Return(<<>>)
    ELSE IF response.kind = "not ok" THEN Return(<<>>)
    ELSE IF response.kind = "body is no JSON" THEN Return(<<>>)
    ELSE Return(response.body)

\* Math.pow(10, decimals)
RECURSIVE Pow10(_)
Pow10(decimals) == IF decimals = 0 THEN 1 ELSE 10 * Pow10(decimals - 1)

extractAmount(tx) ==
    IF Len(tx.nativeTransfers) > 0 THEN tx.nativeTransfers[1].amount \div 1000000000
    ELSE IF Len(tx.tokenTransfers) > 0 THEN tx.tokenTransfers[1].tokenAmount
    ELSE IF tx.swap # NullObject /\ "nativeInput" \in DOMAIN tx.swap
    THEN parseFloat(tx.swap.nativeInput.amount) \div 1000000000
    ELSE IF tx.swap # NullObject /\ Len(tx.swap.tokenInputs) > 0
    THEN parseFloat(tx.swap.tokenInputs[1].rawTokenAmount.tokenAmount)
            \div Pow10(tx.swap.tokenInputs[1].rawTokenAmount.decimals)
    ELSE 0

extractToken(tx) ==
    IF Len(tx.tokenTransfers) > 0 THEN tx.tokenTransfers[1].mint ELSE "SOL"

Activity(tx, action) ==
    [signature |-> tx.signature, timestamp |-> tx.timestamp,
     protocol |-> IF tx.source = "" THEN "Unknown" ELSE tx.source,
     action |-> action, amount |-> extractAmount(tx), token |-> extractToken(tx),
     successful |-> TRUE]

parseActivityFromTransaction(tx) ==
    LET type == toLowerCase(tx.type)
        includes(word) == word \in tx.description
    IN  IF type = "loan" \/ includes("borrow") \/ includes("loan")
        THEN Activity(tx, "borrow")
        ELSE IF includes("repay") \/ includes("payback")
        THEN [signature |-> tx.signature, timestamp |-> tx.timestamp,
              protocol |-> IF tx.source = "" THEN "Unknown" ELSE tx.source,
              action |-> "repay", amount |-> extractAmount(tx), token |-> extractToken(tx),
              successful |-> TRUE, onTime |-> TRUE]
        ELSE IF type = "deposit" \/ includes("deposit") \/ includes("supply")
        THEN Activity(tx, "deposit")
        ELSE IF type = "withdraw" \/ includes("withdraw")
        THEN Activity(tx, "withdraw")
        ELSE IF includes("stake") /\ ~includes("unstake")
        THEN Activity(tx, "stake")
        ELSE IF type = "swap" \/ tx.swap # NullObject
        THEN Activity(tx, "swap")
        ELSE NullObject

RECURSIVE parsedActivities(_)
parsedActivities(transactions) ==
    IF transactions = <<>> THEN <<>>
    ELSE LET activity == parseActivityFromTransaction(Head(transactions))
         IN  (IF activity = NullObject THEN <<>> ELSE <<activity>>)
                \o parsedActivities(Tail(transactions))

extractDeFiActivity(apiKey, response) ==
    LET transactions == getEnhancedTransactions(apiKey, response)
    IN  IF transactions.kind = "throw" THEN transactions
        ELSE Return(parsedActivities(transactions.value))

RECURSIVE Sum(_)
Sum(numbers) == IF numbers = <<>> THEN 0 ELSE Head(numbers) + Sum(Tail(numbers))

\* The amounts of the activities of one action, 0 for the others; of all
\* activities when action is "any".
AmountsOf(activities, action) ==
    [i \in 1..Len(activities) |->
        IF action = "any" \/ activities[i].action = action
        THEN activities[i].amount ELSE 0]

RECURSIVE MinTimestamp(_)
MinTimestamp(activities) ==
    IF Len(activities) = 1 THEN activities[1].timestamp
    ELSE Min(activities[1].timestamp, MinTimestamp(Tail(activities)))

Count(activities, Test(_)) == Len(SelectSeq(activities, Test))

\* The metrics before any activity is processed.
initialMetrics(activities) ==
    [totalBorrowed |-> 0, totalRepaid |-> 0, onTimePayments |-> 0, latePayments |-> 0,
     defaults |-> 0, oldestActivityDays |-> 0, uniqueProtocols |-> {},
     averageTransactionValue |-> Whole(0), totalTransactions |-> Len(activities),
     utilizationHistory |-> <<>>]

\* calculateCreditMetrics after the activities are extracted; `now` is Date.now(). Amounts and
\* the average are exact; a utilization snapshot is (borrowed - repaid) /
\* borrowed.
aggregate(activities, now) ==
    IF Len(activities) = 0 THEN initialMetrics(activities)
    ELSE LET borrowed == Sum(AmountsOf(activities, "borrow"))
             repaid == Sum(AmountsOf(activities, "repay"))
             IsOnTime(a) == a.action = "repay" /\ "onTime" \in DOMAIN a /\ a.onTime
             IsLate(a) == a.action = "repay" /\ ~("onTime" \in DOMAIN a /\ a.onTime)
         IN  [totalBorrowed |-> borrowed,
              totalRepaid |-> repaid,
              onTimePayments |-> Count(activities, IsOnTime),
              latePayments |-> Count(activities, IsLate),
              defaults |-> 0,
              oldestActivityDays |->
                    (now - MinTimestamp(activities) * 1000) \div (60 * 60 * 24 * 1000),
              uniqueProtocols |-> {activities[i].protocol : i \in 1..Len(activities)},
              averageTransactionValue |->
                    Frac(Sum(AmountsOf(activities, "any")), Len(activities)),
              totalTransactions |-> Len(activities),
              utilizationHistory |->
                    IF borrowed > 0 THEN <<Frac(borrowed - repaid, borrowed)>> ELSE <<>>]

calculateCreditMetrics(apiKey, response, now) ==
    LET activities == extractDeFiActivity(apiKey, response)
    IN  IF activities.kind = "throw" THEN activities
        ELSE Return(aggregate(activities.value, now))

InitMetrics ==
    /\ \E apiKey \in {"", "key"}, response \in Responses :
            req = [op |-> "calculateCreditMetrics", apiKey |-> apiKey,
                   response |-> response, now |-> 1700000999]
    /\ res = Pending
    /\ LifecycleIdle

CallCalculateCreditMetrics ==
    Call("calculateCreditMetrics",
         calculateCreditMetrics(req.apiKey, req.response, req.now))

NextMetrics == CallCalculateCreditMetrics

SpecMetrics == InitMetrics /\ [][NextMetrics]_vars

(***************************************************************************)
(* Metrics aggregation                                                     *)
(***************************************************************************)
ZeroMetrics ==
    [totalBorrowed |-> 0, totalRepaid |-> 0, onTimePayments |-> 0, latePayments |-> 0,
     defaults |-> 0, oldestActivityDays |-> 0, uniqueProtocols |-> {},
     averageTransactionValue |-> Whole(0), totalTransactions |-> 0,
     utilizationHistory |-> <<>>]

\* The events the aggregation gets from this call's indexer response.
EventsOfCall ==
    IF req.apiKey = "" \/ req.response.kind # "ok" THEN <<>>
    ELSE parsedActivities(req.response.body)

\* C29: when the indexer yields no events (empty history, no API key, a
\* non-OK response, a thrown fetch error) calculateCreditMetrics returns the
\* zero-valued metrics without raising; for any event list
\* utilizationHistory has exactly one entry iff totalBorrowed > 0, and
\* onTimePayments + latePayments is the number of repay events.
MetricsDegrade ==
    Done({"calculateCreditMetrics"}) =>
        /\ res.kind = "return"
        /\ EventsOfCall = <<>> => res.value = ZeroMetrics
        /\ Len(res.value.utilizationHistory) = (IF res.value.totalBorrowed > 0 THEN 1 ELSE 0)
        /\ res.value.onTimePayments + res.value.latePayments
                = Len(SelectSeq(EventsOfCall, LAMBDA a : a.action = "repay"))

\* With an API key, the indexer answered with a non-OK status.
MetricsDegradeWitness ==
    /\ Done({"calculateCreditMetrics"})
    /\ req.apiKey = "key"
    /\ req.response.kind = "not ok"
    /\ res = Return(ZeroMetrics)

\* Events with a repayment and nothing borrowed: no utilization snapshot.
MetricsDegradeRepayOnly ==
    /\ Done({"calculateCreditMetrics"})
    /\ res.kind = "return"
    /\ res.value.totalTransactions = 2
    /\ res.value.onTimePayments = 1
    /\ res.value.totalBorrowed = 0
    /\ res.value.utilizationHistory = <<>>


(***************************************************************************)
(* Claims about the expiry of a commitment record                          *)
(***************************************************************************)
\* The record in the store and the one in the hook state have the expiresIn
\* that createCommitmentData sets.
ExpiresInAsRegistered ==
    /\ Stored # NullObject => Stored.expiresIn = 30
    /\ state.commitment # NullObject => state.commitment.expiresIn = 30

\* No step removes a stored record or changes its expiresIn.
ExpiresInKept ==
    Stored # NullObject =>
        /\ Stored' # NullObject
        /\ Stored'.expiresIn = Stored.expiresIn

====
